---- MODULE Spec2Model ----
(***************************************************************************)
(* Pixel2CPP: the format packers of src/lib (pack1bit, pack1bitAlpha,      *)
(* packRGB565, packRGB24, packRGB332) and the inline RGBA32 packing of     *)
(* generateCppCode, modelled as operators that follow the loops of the     *)
(* JavaScript source, and a state machine whose Init draws a pixel buffer  *)
(* and whose actions call the packers on it.                               *)
(*                                                                         *)
(* JavaScript arrays are 0-based, TLA+ sequences 1-based: element k of a   *)
(* JavaScript array is element k+1 of the sequence that models it.         *)
(***************************************************************************)
EXTENDS Integers, Sequences, FiniteSets

VARIABLES pixels, width, height, call, ret, drawMode, outputFormat, name, code,
          history, redo, tool, isMouseDown, primary, prevSize, pending,
          strokeStart, dirty, stack, fillTask, steps

vars == <<pixels, width, height, call, ret, drawMode, outputFormat, name, code,
          history, redo, tool, isMouseDown, primary, prevSize, pending,
          strokeStart, dirty, stack, fillTask, steps>>

----------------------------------------------------------------------------
(* Bounds of the model *)

MaxW == 10
MaxH == 9
MaxPixels == 18
MaxPat == 3
MaxGrayW == 6
MaxGrayH == 3
MaxStride == 5

----------------------------------------------------------------------------
(* Integer arithmetic of JavaScript's bit operators on the non-negative    *)
(* values the packers handle (all far below 2^31, so the 32-bit wrap of    *)
(* <<, | and & never occurs).                                              *)

Pow2(n) == 2 ^ n

Shr(v, n) == v \div Pow2(n)

Shl(v, n) == v * Pow2(n)

RECURSIVE BitAnd(_, _)
BitAnd(a, b) ==
  IF a = 0 \/ b = 0 THEN 0
  ELSE (IF a % 2 = 1 /\ b % 2 = 1 THEN 1 ELSE 0) + 2 * BitAnd(a \div 2, b \div 2)

RECURSIVE BitOr(_, _)
BitOr(a, b) ==
  IF a = 0 THEN b
  ELSE IF b = 0 THEN a
  ELSE (IF a % 2 = 1 \/ b % 2 = 1 THEN 1 ELSE 0) + 2 * BitOr(a \div 2, b \div 2)

(* Math.ceil(a / b) for a >= 0, b > 0 *)
CeilDiv(a, b) == (a + b - 1) \div b

----------------------------------------------------------------------------
(* colors.js *)

Pixel(r, g, b, a) == [r |-> r, g |-> g, b |-> b, a |-> a]

transparent == Pixel(0, 0, 0, 0)
black == Pixel(0, 0, 0, 255)
white == Pixel(255, 255, 255, 255)

----------------------------------------------------------------------------
(* packers: const I = (x, y) => y * width + x, shifted to 1-based *)

I(x, y, w) == y * w + x

At(px, x, y, w) == px[I(x, y, w) + 1]

(* ---- pack1bit ---- *)

(* const on = (p.r + p.g + p.b) > (255 * 3) / 2; the right side is 382.5,  *)
(* compared here after doubling both sides.                                *)
on1bit_alphaGated(p) == p.a > 0 /\ 2 * (p.r + p.g + p.b) > 255 * 3
on1bit_darkOn(p) == 2 * (p.r + p.g + p.b) < 255 * 3
on1bit(p) == 2 * (p.r + p.g + p.b) > 255 * 3

(* body of the inner x loop of the horizontal branch; st = [bit, cur, bytes] *)
pack1bitStepH(st, p) ==
  LET cur1 == IF on1bit(p) THEN BitOr(st.cur, Shl(1, st.bit)) ELSE st.cur
      bit1 == st.bit - 1
  IN IF bit1 < 0
       THEN [bit |-> 7, cur |-> 0, bytes |-> Append(st.bytes, cur1)]
       ELSE [bit |-> bit1, cur |-> cur1, bytes |-> st.bytes]

(* if (bit !== 7) bytes.push(cur); then the next row's let bit = 7, cur = 0 *)
pack1bitFlushH_noRowFlush(st) == st
pack1bitFlushH(st) ==
  [bit |-> 7, cur |-> 0,
   bytes |-> IF st.bit # 7 THEN Append(st.bytes, st.cur) ELSE st.bytes]

RECURSIVE pack1bitRowH(_, _, _, _, _)
pack1bitRowH(px, w, y, x, st) ==
  IF x >= w THEN st
  ELSE pack1bitRowH(px, w, y, x + 1, pack1bitStepH(st, At(px, x, y, w)))

RECURSIVE pack1bitRowsH(_, _, _, _, _)
pack1bitRowsH(px, w, h, y, bytes) ==
  IF y >= h THEN bytes
  ELSE pack1bitRowsH(px, w, h, y + 1,
         pack1bitFlushH(pack1bitRowH(px, w, y, 0,
                          [bit |-> 7, cur |-> 0, bytes |-> bytes])).bytes)

(* body of the bit loop of the vertical branch *)
pack1bitStepV_lsbTop(px, w, h, x, yPage, bit, cur) ==
  LET y == yPage * 8 + bit
  IN IF y < h /\ on1bit(At(px, x, y, w)) THEN BitOr(cur, Shl(1, bit)) ELSE cur
pack1bitStepV(px, w, h, x, yPage, bit, cur) ==
  LET y == yPage * 8 + (7 - bit)
  IN IF y < h /\ on1bit(At(px, x, y, w)) THEN BitOr(cur, Shl(1, bit)) ELSE cur

RECURSIVE pack1bitPageV(_, _, _, _, _, _, _)
pack1bitPageV(px, w, h, x, yPage, bit, cur) ==
  IF bit < 0 THEN cur
  ELSE pack1bitPageV(px, w, h, x, yPage, bit - 1,
                     pack1bitStepV(px, w, h, x, yPage, bit, cur))

RECURSIVE pack1bitColV(_, _, _, _, _, _)
pack1bitColV(px, w, h, x, yPage, bytes) ==
  IF yPage >= CeilDiv(h, 8) THEN bytes
  ELSE pack1bitColV(px, w, h, x, yPage + 1,
                    Append(bytes, pack1bitPageV(px, w, h, x, yPage, 7, 0)))

RECURSIVE pack1bitColsV(_, _, _, _, _)
pack1bitColsV(px, w, h, x, bytes) ==
  IF x >= w THEN bytes
  ELSE pack1bitColsV(px, w, h, x + 1, pack1bitColV(px, w, h, x, 0, bytes))

pack1bit(px, w, h, orientation) ==
  IF orientation = "horizontal" THEN pack1bitRowsH(px, w, h, 0, << >>)
  ELSE IF orientation = "vertical" THEN pack1bitColsV(px, w, h, 0, << >>)
  ELSE << >>

(* ---- pack1bitAlpha ---- *)

(* const hasAlpha = p.a > 127 *)
hasAlpha_anyAlpha(p) == p.a > 0
hasAlpha(p) == p.a > 127

pack1bitAlphaStepH(st, p) ==
  LET cur1 == IF hasAlpha(p) THEN BitOr(st.cur, Shl(1, st.bit)) ELSE st.cur
      bit1 == st.bit - 1
  IN IF bit1 < 0
       THEN [bit |-> 7, cur |-> 0, bytes |-> Append(st.bytes, cur1)]
       ELSE [bit |-> bit1, cur |-> cur1, bytes |-> st.bytes]

pack1bitAlphaFlushH(st) ==
  [bit |-> 7, cur |-> 0,
   bytes |-> IF st.bit # 7 THEN Append(st.bytes, st.cur) ELSE st.bytes]

RECURSIVE pack1bitAlphaRowH(_, _, _, _, _)
pack1bitAlphaRowH(px, w, y, x, st) ==
  IF x >= w THEN st
  ELSE pack1bitAlphaRowH(px, w, y, x + 1, pack1bitAlphaStepH(st, At(px, x, y, w)))

RECURSIVE pack1bitAlphaRowsH(_, _, _, _, _)
pack1bitAlphaRowsH(px, w, h, y, bytes) ==
  IF y >= h THEN bytes
  ELSE pack1bitAlphaRowsH(px, w, h, y + 1,
         pack1bitAlphaFlushH(pack1bitAlphaRowH(px, w, y, 0,
                               [bit |-> 7, cur |-> 0, bytes |-> bytes])).bytes)

pack1bitAlphaStepV(px, w, h, x, yPage, bit, cur) ==
  LET y == yPage * 8 + (7 - bit)
  IN IF y < h /\ hasAlpha(At(px, x, y, w)) THEN BitOr(cur, Shl(1, bit)) ELSE cur

RECURSIVE pack1bitAlphaPageV(_, _, _, _, _, _, _)
pack1bitAlphaPageV(px, w, h, x, yPage, bit, cur) ==
  IF bit < 0 THEN cur
  ELSE pack1bitAlphaPageV(px, w, h, x, yPage, bit - 1,
                          pack1bitAlphaStepV(px, w, h, x, yPage, bit, cur))

RECURSIVE pack1bitAlphaColV(_, _, _, _, _, _)
pack1bitAlphaColV(px, w, h, x, yPage, bytes) ==
  IF yPage >= CeilDiv(h, 8) THEN bytes
  ELSE pack1bitAlphaColV(px, w, h, x, yPage + 1,
                         Append(bytes, pack1bitAlphaPageV(px, w, h, x, yPage, 7, 0)))

RECURSIVE pack1bitAlphaColsV(_, _, _, _, _)
pack1bitAlphaColsV(px, w, h, x, bytes) ==
  IF x >= w THEN bytes
  ELSE pack1bitAlphaColsV(px, w, h, x + 1, pack1bitAlphaColV(px, w, h, x, 0, bytes))

(* the second branch is a plain else: every orientation but 'horizontal' *)
pack1bitAlpha(px, w, h, orientation) ==
  IF orientation = "horizontal" THEN pack1bitAlphaRowsH(px, w, h, 0, << >>)
  ELSE pack1bitAlphaColsV(px, w, h, 0, << >>)

(* ---- packRGB565 ---- *)

rgbTo565_green5(r, g, b) ==
  LET R == BitAnd(Shr(r, 3), 31)
      G == BitAnd(Shr(g, 3), 31)
      B == BitAnd(Shr(b, 3), 31)
  IN BitOr(BitOr(Shl(R, 11), Shl(G, 5)), B)
rgbTo565_rgb555(r, g, b) ==
  LET R == BitAnd(Shr(r, 3), 31)
      G == BitAnd(Shr(g, 3), 31)
      B == BitAnd(Shr(b, 3), 31)
  IN BitOr(BitOr(Shl(R, 10), Shl(G, 5)), B)
rgbTo565(r, g, b) ==
  LET R == BitAnd(Shr(r, 3), 31)
      G == BitAnd(Shr(g, 2), 63)
      B == BitAnd(Shr(b, 3), 31)
  IN BitOr(BitOr(Shl(R, 11), Shl(G, 5)), B)

RECURSIVE packRGB565Loop(_, _, _, _, _, _)
packRGB565Loop(px, w, h, y, x, out) ==
  IF y >= h THEN out
  ELSE IF x >= w THEN packRGB565Loop(px, w, h, y + 1, 0, out)
  ELSE LET p == At(px, x, y, w)
       IN packRGB565Loop(px, w, h, y, x + 1, Append(out, rgbTo565(p.r, p.g, p.b)))

packRGB565(px, w, h) == packRGB565Loop(px, w, h, 0, 0, << >>)

(* ---- packRGB24 ---- *)

(* out.push(p.r, p.g, p.b) *)
packRGB24Push_bgr(out, p) == out \o <<p.b, p.g, p.r>>
packRGB24Push(out, p) == out \o <<p.r, p.g, p.b>>

RECURSIVE packRGB24Loop(_, _, _, _, _, _)
packRGB24Loop(px, w, h, y, x, out) ==
  IF y >= h THEN out
  ELSE IF x >= w THEN packRGB24Loop(px, w, h, y + 1, 0, out)
  ELSE packRGB24Loop(px, w, h, y, x + 1, packRGB24Push(out, At(px, x, y, w)))

packRGB24(px, w, h) == packRGB24Loop(px, w, h, 0, 0, << >>)

(* ---- packRGB332 ---- *)

rgbTo332_blue3(r, g, b) ==
  LET R == BitAnd(Shr(r, 5), 7)
      G == BitAnd(Shr(g, 5), 7)
      B == BitAnd(Shr(b, 5), 7)
  IN BitOr(BitOr(Shl(R, 5), Shl(G, 2)), B)
rgbTo332(r, g, b) ==
  LET R == BitAnd(Shr(r, 5), 7)
      G == BitAnd(Shr(g, 5), 7)
      B == BitAnd(Shr(b, 6), 3)
  IN BitOr(BitOr(Shl(R, 5), Shl(G, 2)), B)

RECURSIVE packRGB332Loop(_, _, _, _, _, _)
packRGB332Loop(px, w, h, y, x, out) ==
  IF y >= h THEN out
  ELSE IF x >= w THEN packRGB332Loop(px, w, h, y + 1, 0, out)
  ELSE LET p == At(px, x, y, w)
       IN packRGB332Loop(px, w, h, y, x + 1, Append(out, rgbTo332(p.r, p.g, p.b)))

packRGB332(px, w, h) == packRGB332Loop(px, w, h, 0, 0, << >>)

(* ---- packGray4 ---- *)

(* The (r, g, b) for which 0.2126*r + 0.7152*g + 0.0722*b is an exact      *)
(* multiple of 16 in real arithmetic and the IEEE-754 double evaluation of *)
(* (0.2126 * p.r + 0.7152 * p.g + 0.0722 * p.b) / 16, left to right, lands *)
(* just below that integer (53 of the 210 exact multiples in 0..255^3).    *)
DoubleRoundsBelow ==
  {
     <<12, 175, 4>>, <<12, 230, 124>>, <<13, 204, 157>>, <<14, 178, 190>>,
     <<15, 152, 223>>, <<17, 45, 169>>, <<28, 191, 20>>, <<30, 139, 86>>,
     <<33, 61, 185>>, <<43, 233, 3>>, <<44, 207, 36>>, <<46, 210, 222>>,
     <<47, 129, 135>>, <<59, 249, 19>>, <<61, 252, 205>>, <<62, 171, 118>>,
     <<64, 119, 184>>, <<78, 242, 254>>, <<80, 80, 80>>, <<81, 54, 113>>,
     <<92, 255, 84>>, <<97, 70, 129>>, <<110, 219, 166>>, <<111, 193, 199>>,
     <<112, 112, 112>>, <<126, 235, 182>>, <<129, 102, 161>>, <<141, 222, 45>>,
     <<142, 196, 78>>, <<143, 170, 111>>, <<145, 63, 57>>, <<145, 118, 177>>,
     <<146, 37, 90>>, <<157, 238, 61>>, <<159, 131, 7>>, <<160, 160, 160>>,
     <<162, 108, 226>>, <<175, 147, 23>>, <<176, 121, 56>>, <<177, 95, 89>>,
     <<177, 150, 209>>, <<191, 163, 39>>, <<194, 85, 138>>, <<195, 59, 171>>,
     <<208, 208, 208>>, <<209, 72, 1>>, <<221, 247, 5>>, <<222, 221, 38>>,
     <<223, 250, 191>>, <<224, 224, 224>>, <<239, 211, 87>>, <<240, 185, 120>>,
     <<255, 227, 103>> }

(* 10000 times the weighted sum, exact *)
LumaTimes10000(p) == 2126 * p.r + 7152 * p.g + 722 * p.b

(* const luma = Math.floor((0.2126 * p.r + 0.7152 * p.g + 0.0722 * p.b) / 16) *)
gray4Luma_round(p) == (LumaTimes10000(p) + 80000) \div 160000
gray4Luma(p) ==
  (LumaTimes10000(p) \div 160000)
    - (IF <<p.r, p.g, p.b>> \in DoubleRoundsBelow THEN 1 ELSE 0)

Min(a, b) == IF a < b THEN a ELSE b

Max(a, b) == IF a > b THEN a ELSE b

(* const gray4 = Math.min(15, Math.max(0, luma)) *)
gray4(p) == Min(15, Max(0, gray4Luma(p)))

(* body of the x loop; st = [nibble, cur, bytes], nibble = 1 before the    *)
(* first pixel of a pair                                                   *)
packGray4Step_lowFirst(st, p) ==
  IF st.nibble = 1
    THEN [nibble |-> 0, cur |-> gray4(p), bytes |-> st.bytes]
    ELSE [nibble |-> 1, cur |-> 0,
          bytes |-> Append(st.bytes, BitOr(st.cur, Shl(gray4(p), 4)))]
packGray4Step(st, p) ==
  IF st.nibble = 1
    THEN [nibble |-> 0, cur |-> Shl(gray4(p), 4), bytes |-> st.bytes]
    ELSE [nibble |-> 1, cur |-> 0,
          bytes |-> Append(st.bytes, BitOr(st.cur, gray4(p)))]

(* if (nibble === 0) bytes.push(cur) *)
packGray4Flush_noFlush(st) == st.bytes
packGray4Flush(st) ==
  IF st.nibble = 0 THEN Append(st.bytes, st.cur) ELSE st.bytes

RECURSIVE packGray4Row(_, _, _, _, _)
packGray4Row(px, w, y, x, st) ==
  IF x >= w THEN st
  ELSE packGray4Row(px, w, y, x + 1, packGray4Step(st, At(px, x, y, w)))

RECURSIVE packGray4Rows(_, _, _, _, _)
packGray4Rows(px, w, h, y, bytes) ==
  IF y >= h THEN bytes
  ELSE packGray4Rows(px, w, h, y + 1,
         packGray4Flush(packGray4Row(px, w, y, 0,
                          [nibble |-> 1, cur |-> 0, bytes |-> bytes])))

packGray4(px, w, h) == packGray4Rows(px, w, h, 0, << >>)

----------------------------------------------------------------------------
(* Pixel2CPP.jsx, generateCppCode: the packed data chosen by the draw mode *)

(* bytes.push(p.r, p.g, p.b, p.a) of the HORIZONTAL_RGB888_32 branch *)
rgba32Push(out, p) == out \o <<p.r, p.g, p.b, p.a>>

RECURSIVE rgba32Loop(_, _, _, _, _, _)
rgba32Loop(data, w, h, y, x, bytes) ==
  IF y >= h THEN bytes
  ELSE IF x >= w THEN rgba32Loop(data, w, h, y + 1, 0, bytes)
  ELSE rgba32Loop(data, w, h, y, x + 1, rgba32Push(bytes, data[y * w + x + 1]))

DrawModes ==
  {"HORIZONTAL_1BIT", "VERTICAL_1BIT", "HORIZONTAL_ALPHA", "HORIZONTAL_RGB565",
   "HORIZONTAL_RGB888_24", "HORIZONTAL_RGB888_32"}

(* let bytes; ... the if/else-if chain on drawMode; a draw mode that no    *)
(* branch names leaves bytes undefined                                     *)
drawModeBytes(dm, data, w, h) ==
  IF dm = "HORIZONTAL_1BIT" THEN pack1bit(data, w, h, "horizontal")
  ELSE IF dm = "VERTICAL_1BIT" THEN pack1bit(data, w, h, "vertical")
  ELSE IF dm = "HORIZONTAL_ALPHA" THEN pack1bitAlpha(data, w, h, "horizontal")
  ELSE IF dm = "HORIZONTAL_RGB565" THEN packRGB565(data, w, h)
  ELSE IF dm = "HORIZONTAL_RGB888_24" THEN packRGB24(data, w, h)
  ELSE IF dm = "HORIZONTAL_RGB888_32" THEN rgba32Loop(data, w, h, 0, 0, << >>)
  ELSE "undefined"

-----------------------------------------------------------------------------
(* Pixel2CPP.jsx, the code generator.  Generated text is kept as a sequence *)
(* of lines; a line is the sequence of the pieces of its template literal:  *)
(* literal text, and the interpolations ${safeName}, ${w}, ${dataType},     *)
(* ${byteStr} ...  Names and hex literals are sequences of one-character    *)
(* strings.                                                                 *)

Tx(s) == [t |-> "txt", v |-> s]
Nm(s) == [t |-> "name", v |-> s]
Num(n) == [t |-> "num", v |-> n]
Str(s) == [t |-> "str", v |-> s]
Lst(lits) == [t |-> "list", v |-> lits]

(* the character class [a-zA-Z0-9_] *)
IdentChars ==
  {"a", "b", "c", "d", "e", "f", "g", "h", "i", "j", "k", "l", "m",
   "n", "o", "p", "q", "r", "s", "t", "u", "v", "w", "x", "y", "z",
   "A", "B", "C", "D", "E", "F", "G", "H", "I", "J", "K", "L", "M",
   "N", "O", "P", "Q", "R", "S", "T", "U", "V", "W", "X", "Y", "Z",
   "0", "1", "2", "3", "4", "5", "6", "7", "8", "9", "_"}

safeNameChar_dropsDigits(c) ==
  IF c \in IdentChars \ {"0", "1", "2", "3", "4", "5", "6", "7", "8", "9"}
  THEN c ELSE "_"

(* one replacement of /[^a-zA-Z0-9_]/g *)
safeNameChar(c) == IF c \in IdentChars THEN c ELSE "_"

(* name.replace(/[^a-zA-Z0-9_]/g, "_") *)
safeName(n) == [i \in 1..Len(n) |-> safeNameChar(n[i])]

(* b.toString(16): lowercase digits, most significant first, no padding *)
HexDigits ==
  <<"0", "1", "2", "3", "4", "5", "6", "7", "8", "9", "a", "b", "c", "d", "e", "f">>

RECURSIVE toString16(_)
toString16(b) ==
  IF b < 16 THEN <<HexDigits[b + 1]>>
  ELSE Append(toString16(b \div 16), HexDigits[(b % 16) + 1])

toUpperCaseChar(c) ==
  CASE c = "a" -> "A" [] c = "b" -> "B" [] c = "c" -> "C"
    [] c = "d" -> "D" [] c = "e" -> "E" [] c = "f" -> "F"
    [] OTHER -> c

toUpperCase(s) == [i \in 1..Len(s) |-> toUpperCaseChar(s[i])]

RECURSIVE padStart(_, _, _)
padStart(s, n, fill) == IF Len(s) >= n THEN s ELSE padStart(<<fill>> \o s, n, fill)

(* "0x" + b.toString(16).toUpperCase().padStart(n, "0") *)
hexLiteral(b, n) == <<"0", "x">> \o padStart(toUpperCase(toString16(b)), n, "0")

(* io.js, hex565 *)
hex565(v) == hexLiteral(v, 4)

(* const formatByte = (b) => dataType === "uint16_t" ? ... : ... *)
formatByte(b, dataType) ==
  IF dataType = "uint16_t" THEN hexLiteral(b, 4) ELSE hexLiteral(b, 2)

(* the values the two selectors can hold: the six draw modes that            *)
(* generateCppCode names and the two more that the Sidebar offers; the four *)
(* output formats and a value outside them                                   *)
OutputFormats ==
  {"PLAIN_BYTES", "ARDUINO_CODE", "ARDUINO_SINGLE_BITMAP", "GFX_BITMAP_FONT"}

SidebarDrawModes == DrawModes \cup {"HORIZONTAL_RGB332", "HORIZONTAL_GRAY4"}

SelectableFormats == OutputFormats \cup {"LEGACY"}

(* dataType and dataFormat as the drawMode chain sets them *)
dataTypeOf(dm) ==
  IF dm = "HORIZONTAL_RGB565" THEN "uint16_t"
  ELSE IF dm \in DrawModes THEN "uint8_t"
  ELSE "undefined"

dataFormatOf(dm) ==
  IF dm \in {"HORIZONTAL_1BIT", "VERTICAL_1BIT"} THEN "bits"
  ELSE IF dm = "HORIZONTAL_ALPHA" THEN "alpha"
  ELSE IF dm \in DrawModes THEN "pixels"
  ELSE "undefined"

(* drawMode.includes(part), over the values the draw mode can hold *)
includes(dm, part) ==
  <<dm, part>> \in { <<"HORIZONTAL_1BIT", "1BIT">>, <<"VERTICAL_1BIT", "1BIT">>,
                     <<"HORIZONTAL_RGB565", "RGB565">> }

(* outcomes of a call: a value, undefined, or a thrown exception *)
Throw(e) == [kind |-> "throw", error |-> e]
Text(lines) == [kind |-> "text", text |-> lines]
Undefined == [kind |-> "undefined"]

(* the packing stage of generateCppCode.  Every packer reads                *)
(* pixels[y * width + x] for all x < w, y < h and then a field of it: on a  *)
(* buffer shorter than w*h the element is undefined and the read of p.r     *)
(* throws a TypeError; elements beyond w*h are never read.  A draw mode     *)
(* outside the chain leaves bytes undefined.                                *)
packedBytes(dm, data, w, h) ==
  IF dm \notin DrawModes THEN Undefined
  ELSE IF Len(data) < w * h THEN Throw("TypeError")
  ELSE [kind |-> "value", bytes |-> drawModeBytes(dm, data, w, h)]

(* generateCppCode, legacy fallback for HORIZONTAL_1BIT, lines 245-264: the template literal, one entry per line *)
legacy1bit(byteStr, sn, w, h) ==
  << <<Tx("// Generated by Pixel2CPP (1-bit)")>>,
     <<Tx("#include <Adafruit_GFX.h>")>>,
     <<Tx("#include <Adafruit_SSD1306.h>")>>,
     << >>,
     <<Tx("const uint16_t "), Nm(sn), Tx("_w = "), Num(w), Tx(";")>>,
     <<Tx("const uint16_t "), Nm(sn), Tx("_h = "), Num(h), Tx(";")>>,
     <<Tx("const uint8_t "), Nm(sn), Tx("_bits[] PROGMEM = {")>>,
     <<Tx("  "), Lst(byteStr)>>,
     <<Tx("};")>>,
     << >>,
     <<Tx("Adafruit_SSD1306 display(128, 64, &Wire, -1);")>>,
     << >>,
     <<Tx("void setup(){")>>,
     <<Tx("  display.begin(SSD1306_SWITCHCAPVCC, 0x3C);")>>,
     <<Tx("  display.clearDisplay();")>>,
     <<Tx("  display.drawBitmap(0, 0, "), Nm(sn), Tx("_bits, "), Nm(sn), Tx("_w, "), Nm(sn), Tx("_h, 1);")>>,
     <<Tx("  display.display();")>>,
     <<Tx("}")>>,
     << >>,
     <<Tx("void loop(){}")>> >>

(* generateCppCode, legacy fallback for HORIZONTAL_RGB565, lines 268-323: the template literal, one entry per line *)
legacyRGB565(wordStr, sn, w, h) ==
  << <<Tx("// Generated by Pixel2CPP (RGB565 for TFT displays)")>>,
     <<Tx("#include <Adafruit_GFX.h>")>>,
     <<Tx("#include <Adafruit_ST7735.h>  // Use ST7789, ILI9341, etc. for your display")>>,
     << >>,
     <<Tx("const uint16_t "), Nm(sn), Tx("_w = "), Num(w), Tx(";")>>,
     <<Tx("const uint16_t "), Nm(sn), Tx("_h = "), Num(h), Tx(";")>>,
     <<Tx("const uint16_t "), Nm(sn), Tx("_pixels[] PROGMEM = {")>>,
     <<Tx("  "), Lst(wordStr)>>,
     <<Tx("};")>>,
     << >>,
     <<Tx("// Define pins for your display (adjust for your setup)")>>,
     <<Tx("#define TFT_CS   10")>>,
     <<Tx("#define TFT_RST  9")>>,
     <<Tx("#define TFT_DC   8")>>,
     << >>,
     <<Tx("Adafruit_ST7735 tft = Adafruit_ST7735(TFT_CS, TFT_DC, TFT_RST);")>>,
     << >>,
     <<Tx("void setup() {")>>,
     <<Tx("  Serial.begin(9600);")>>,
     <<Tx("  ")>>,
     <<Tx("  // Initialize display")>>,
     <<Tx("  tft.initR(INITR_BLACKTAB);  // Use INITR_GREENTAB, INITR_REDTAB for other variants")>>,
     <<Tx("  tft.setRotation(0);         // Adjust rotation as needed (0-3)")>>,
     <<Tx("  tft.fillScreen(ST77XX_BLACK);")>>,
     <<Tx("  ")>>,
     <<Tx("  // Display the image at position (0, 0)")>>,
     <<Tx("  drawImage(0, 0);")>>,
     <<Tx("}")>>,
     << >>,
     <<Tx("void loop() {")>>,
     <<Tx("  // Your main code here")>>,
     <<Tx("}")>>,
     << >>,
     <<Tx("void drawImage(int16_t x0, int16_t y0) {")>>,
     <<Tx("  // Fast method: set address window and write pixels directly")>>,
     <<Tx("  tft.startWrite();")>>,
     <<Tx("  tft.setAddrWindow(x0, y0, "), Nm(sn), Tx("_w, "), Nm(sn), Tx("_h);")>>,
     <<Tx("  ")>>,
     <<Tx("  for (uint16_t i = 0; i < "), Nm(sn), Tx("_w * "), Nm(sn), Tx("_h; i++) {")>>,
     <<Tx("    uint16_t color = pgm_read_word(&"), Nm(sn), Tx("_pixels[i]);")>>,
     <<Tx("    tft.writePixel(color);")>>,
     <<Tx("  }")>>,
     <<Tx("  ")>>,
     <<Tx("  tft.endWrite();")>>,
     <<Tx("}")>>,
     << >>,
     <<Tx("/* Alternative method (slower but more flexible):")>>,
     <<Tx("void drawImagePixelByPixel(int16_t x0, int16_t y0) {")>>,
     <<Tx("  for (uint16_t y = 0; y < "), Nm(sn), Tx("_h; y++) {")>>,
     <<Tx("    for (uint16_t x = 0; x < "), Nm(sn), Tx("_w; x++) {")>>,
     <<Tx("      uint16_t color = pgm_read_word(&"), Nm(sn), Tx("_pixels[y * "), Nm(sn), Tx("_w + x]);")>>,
     <<Tx("      tft.drawPixel(x0 + x, y0 + y, color);")>>,
     <<Tx("    }")>>,
     <<Tx("  }")>>,
     <<Tx("}")>>,
     <<Tx("*/")>> >>

(* generatePlainBytes, lines 503-507: the template literal, one entry per line *)
plainBytesText(byteStr, bytes, w, h, dataType) ==
  << <<Tx("// Generated by Pixel2CPP - Plain bytes format")>>,
     <<Tx("// "), Num(w), Tx("x"), Num(h), Tx(" pixels, "), Num(Len(bytes)), Tx(" bytes total")>>,
     <<Tx("// Data type: "), Str(dataType)>>,
     << >>,
     <<Lst(byteStr)>> >>

generatePlainBytes(bytes, sn, w, h, dataType) ==
  plainBytesText([i \in 1..Len(bytes) |-> formatByte(bytes[i], dataType)],
                 bytes, w, h, dataType)

(* generateArduinoCode, drawMode.includes("1BIT"), lines 518-537: the template literal, one entry per line *)
arduinoCode1BIT(byteStr, sn, w, h, dataType, dataFormat, dm) ==
  << <<Tx("// Generated by Pixel2CPP ("), Str(dm), Tx(")")>>,
     <<Tx("#include <Adafruit_GFX.h>")>>,
     <<Tx("#include <Adafruit_SSD1306.h>")>>,
     << >>,
     <<Tx("const uint16_t "), Nm(sn), Tx("_w = "), Num(w), Tx(";")>>,
     <<Tx("const uint16_t "), Nm(sn), Tx("_h = "), Num(h), Tx(";")>>,
     <<Tx("const "), Str(dataType), Tx(" "), Nm(sn), Tx("_"), Str(dataFormat), Tx("[] PROGMEM = {")>>,
     <<Tx("  "), Lst(byteStr)>>,
     <<Tx("};")>>,
     << >>,
     <<Tx("Adafruit_SSD1306 display(128, 64, &Wire, -1);")>>,
     << >>,
     <<Tx("void setup() {")>>,
     <<Tx("  display.begin(SSD1306_SWITCHCAPVCC, 0x3C);")>>,
     <<Tx("  display.clearDisplay();")>>,
     <<Tx("  display.drawBitmap(0, 0, "), Nm(sn), Tx("_"), Str(dataFormat), Tx(", "), Nm(sn), Tx("_w, "), Nm(sn), Tx("_h, 1);")>>,
     <<Tx("  display.display();")>>,
     <<Tx("}")>>,
     << >>,
     <<Tx("void loop() {}")>> >>

(* generateArduinoCode, drawMode.includes("RGB565"), lines 539-571: the template literal, one entry per line *)
arduinoCodeRGB565(byteStr, sn, w, h, dataType, dataFormat) ==
  << <<Tx("// Generated by Pixel2CPP (RGB565)")>>,
     <<Tx("#include <Adafruit_GFX.h>")>>,
     <<Tx("#include <Adafruit_ST7735.h>")>>,
     << >>,
     <<Tx("const uint16_t "), Nm(sn), Tx("_w = "), Num(w), Tx(";")>>,
     <<Tx("const uint16_t "), Nm(sn), Tx("_h = "), Num(h), Tx(";")>>,
     <<Tx("const "), Str(dataType), Tx(" "), Nm(sn), Tx("_"), Str(dataFormat), Tx("[] PROGMEM = {")>>,
     <<Tx("  "), Lst(byteStr)>>,
     <<Tx("};")>>,
     << >>,
     <<Tx("#define TFT_CS   10")>>,
     <<Tx("#define TFT_RST  9")>>,
     <<Tx("#define TFT_DC   8")>>,
     << >>,
     <<Tx("Adafruit_ST7735 tft = Adafruit_ST7735(TFT_CS, TFT_DC, TFT_RST);")>>,
     << >>,
     <<Tx("void setup() {")>>,
     <<Tx("  tft.initR(INITR_BLACKTAB);")>>,
     <<Tx("  tft.fillScreen(ST77XX_BLACK);")>>,
     <<Tx("  drawImage(0, 0);")>>,
     <<Tx("}")>>,
     << >>,
     <<Tx("void drawImage(int16_t x0, int16_t y0) {")>>,
     <<Tx("  tft.startWrite();")>>,
     <<Tx("  tft.setAddrWindow(x0, y0, "), Nm(sn), Tx("_w, "), Nm(sn), Tx("_h);")>>,
     <<Tx("  for (uint16_t i = 0; i < "), Nm(sn), Tx("_w * "), Nm(sn), Tx("_h; i++) {")>>,
     <<Tx("    uint16_t color = pgm_read_word(&"), Nm(sn), Tx("_"), Str(dataFormat), Tx("[i]);")>>,
     <<Tx("    tft.writePixel(color);")>>,
     <<Tx("  }")>>,
     <<Tx("  tft.endWrite();")>>,
     <<Tx("}")>>,
     << >>,
     <<Tx("void loop() {}")>> >>

(* generateArduinoCode, any other draw mode, lines 573-582: the template literal, one entry per line *)
arduinoCodeOther(byteStr, sn, w, h, dataType, dataFormat, dm) ==
  << <<Tx("// Generated by Pixel2CPP ("), Str(dm), Tx(")")>>,
     <<Tx("#include <Adafruit_GFX.h>")>>,
     << >>,
     <<Tx("const uint16_t "), Nm(sn), Tx("_w = "), Num(w), Tx(";")>>,
     <<Tx("const uint16_t "), Nm(sn), Tx("_h = "), Num(h), Tx(";")>>,
     <<Tx("const "), Str(dataType), Tx(" "), Nm(sn), Tx("_"), Str(dataFormat), Tx("[] PROGMEM = {")>>,
     <<Tx("  "), Lst(byteStr)>>,
     <<Tx("};")>>,
     << >>,
     <<Tx("// Add your display setup and drawing code here")>> >>

generateArduinoCode(bytes, sn, w, h, dataType, dataFormat, dm) ==
  LET byteStr == [i \in 1..Len(bytes) |-> formatByte(bytes[i], dataType)]
  IN IF includes(dm, "1BIT")
       THEN arduinoCode1BIT(byteStr, sn, w, h, dataType, dataFormat, dm)
     ELSE IF includes(dm, "RGB565")
       THEN arduinoCodeRGB565(byteStr, sn, w, h, dataType, dataFormat)
     ELSE arduinoCodeOther(byteStr, sn, w, h, dataType, dataFormat, dm)

(* generateArduinoSingleBitmap, lines 593-595: the template literal, one entry per line *)
singleBitmapText(byteStr, bytes, sn, w, h, dataType) ==
  << <<Tx("// Single bitmap array - "), Nm(sn)>>,
     <<Tx("// "), Num(w), Tx("x"), Num(h), Tx(" pixels, "), Num(Len(bytes)), Tx(" bytes")>>,
     <<Tx("const "), Str(dataType), Tx(" "), Nm(sn), Tx("[] PROGMEM = { "), Lst(byteStr), Tx(" };")>> >>

generateArduinoSingleBitmap(bytes, sn, w, h, dataType, dataFormat) ==
  singleBitmapText([i \in 1..Len(bytes) |-> formatByte(bytes[i], dataType)],
                   bytes, sn, w, h, dataType)

(* generateGFXBitmapFont, lines 601-616: the template literal, one entry per line *)
gfxBitmapFontText(byteStr, sn, w, h) ==
  << <<Tx("// GFX Bitmap Font format - "), Nm(sn)>>,
     <<Tx("#include <Adafruit_GFX.h>")>>,
     << >>,
     <<Tx("const uint8_t "), Nm(sn), Tx("Bitmaps[] PROGMEM = {")>>,
     <<Tx("  "), Lst(byteStr)>>,
     <<Tx("};")>>,
     << >>,
     <<Tx("const GFXglyph "), Nm(sn), Tx("Glyphs[] PROGMEM = {")>>,
     <<Tx("  { 0, "), Num(w), Tx(", "), Num(h), Tx(", "), Num(w), Tx(", 0, 0 } // Single glyph covering entire bitmap")>>,
     <<Tx("};")>>,
     << >>,
     <<Tx("const GFXfont "), Nm(sn), Tx(" PROGMEM = {")>>,
     <<Tx("  (uint8_t *)"), Nm(sn), Tx("Bitmaps,")>>,
     <<Tx("  (GFXglyph *)"), Nm(sn), Tx("Glyphs,")>>,
     <<Tx("  0, 0, "), Num(h)>>,
     <<Tx("};")>> >>

generateGFXBitmapFont_swapsDims(bytes, sn, w, h) ==
  gfxBitmapFontText([i \in 1..Len(bytes) |-> hexLiteral(bytes[i], 2)], sn, h, w)

generateGFXBitmapFont(bytes, sn, w, h) ==
  gfxBitmapFontText([i \in 1..Len(bytes) |-> hexLiteral(bytes[i], 2)], sn, w, h)

(* the legacy fallback after the outputFormat chain.  Its third and later   *)
(* conditions read the identifier `mode`, which is declared nowhere in the  *)
(* module: evaluating `mode === "RGB24"` throws a ReferenceError, so the    *)
(* RGB24, RGB332 and GRAY4 templates behind them are never reached.         *)
legacyFallback(dm, bytes, data, sn, w, h) ==
  IF dm = "HORIZONTAL_1BIT"
    THEN Text(legacy1bit([i \in 1..Len(bytes) |-> hexLiteral(bytes[i], 2)], sn, w, h))
  ELSE IF dm = "HORIZONTAL_RGB565"
    THEN LET words == packRGB565(data, w, h)
         IN Text(legacyRGB565([i \in 1..Len(words) |-> hex565(words[i])], sn, w, h))
  ELSE Throw("ReferenceError")

(* generateCppCode: sanitize the name, pack by drawMode, dispatch on        *)
(* outputFormat (each emitter starts with bytes.map, a TypeError when bytes *)
(* is undefined), else the legacy fallback                                  *)
generateCppCode(nm, dm, fmt, data, w, h) ==
  LET sn == safeName(nm)
      packed == packedBytes(dm, data, w, h)
      dataType == dataTypeOf(dm)
      dataFormat == dataFormatOf(dm)
  IN IF packed.kind = "throw" THEN packed
     ELSE IF fmt \in OutputFormats
       THEN IF packed.kind = "undefined" THEN Throw("TypeError")
            ELSE IF fmt = "PLAIN_BYTES"
              THEN Text(generatePlainBytes(packed.bytes, sn, w, h, dataType))
            ELSE IF fmt = "ARDUINO_CODE"
              THEN Text(generateArduinoCode(packed.bytes, sn, w, h, dataType, dataFormat, dm))
            ELSE IF fmt = "ARDUINO_SINGLE_BITMAP"
              THEN Text(generateArduinoSingleBitmap(packed.bytes, sn, w, h, dataType, dataFormat))
            ELSE Text(generateGFXBitmapFont(packed.bytes, sn, w, h))
     ELSE IF packed.kind = "undefined"
       THEN Throw("ReferenceError")
     ELSE legacyFallback(dm, packed.bytes, data, sn, w, h)

(* exportCpp: generate, sanitize the name again, download `${safeName}.h`   *)
exportCpp(nm, dm, fmt, data, w, h) ==
  LET generated == generateCppCode(nm, dm, fmt, data, w, h)
  IN IF generated.kind = "throw" THEN << >>
     ELSE << [filename |-> safeName(nm) \o <<".", "h">>, text |-> generated] >>

----------------------------------------------------------------------------
(* The inputs: a buffer of width*height pixels, two palette colours laid   *)
(* out by a repeating on/off mask of period 1..MaxPat.                     *)

Palette ==
  << black, white, transparent,
     Pixel(255, 0, 0, 255), Pixel(0, 255, 0, 255), Pixel(0, 0, 255, 255),
     Pixel(127, 127, 127, 127), Pixel(127, 127, 128, 128),
     Pixel(127, 128, 128, 0), Pixel(255, 255, 255, 0), Pixel(18, 52, 86, 255) >>

Dims == {d \in (1..MaxW) \X (1..MaxH) : d[1] * d[2] <= MaxPixels}

Tile(pa, pb, mask, n) ==
  [i \in 1..n |-> IF mask[((i - 1) % Len(mask)) + 1] THEN pa ELSE pb]

Masks == UNION {[1..L -> BOOLEAN] : L \in 1..MaxPat}

Orientations == {"horizontal", "vertical"}

NoCall == [fn |-> "none", orientation |-> "none"]

(* the selectors and the asset name of the component, and the text of the  *)
(* last generation                                                         *)
genVars == <<drawMode, outputFormat, name, code>>

(* useState("HORIZONTAL_1BIT"), useState("ARDUINO_CODE"), useState("sprite") *)
InitSelectors ==
  /\ drawMode = "HORIZONTAL_1BIT"
  /\ outputFormat = "ARDUINO_CODE"
  /\ name = <<"s", "p", "r", "i", "t", "e">>
  /\ code = [kind |-> "none"]

(* the editor state of Pixel2CPP and the working state of floodFill          *)
editVars ==
  <<history, redo, tool, isMouseDown, primary, prevSize, pending,
    strokeStart, dirty, stack, fillTask, steps>>

(* useState([]) for history and redo, useState("pen"), useRef(false),        *)
(* useState(black()), useRef({ w, h }); no image load in flight, no stroke,  *)
(* no fill running                                                           *)
InitEditor ==
  /\ history = << >>
  /\ redo = << >>
  /\ tool = "pen"
  /\ isMouseDown = FALSE
  /\ primary = black
  /\ prevSize = [w |-> width, h |-> height]
  /\ pending = << >>
  /\ strokeStart = << >>
  /\ dirty = FALSE
  /\ stack = << >>
  /\ fillTask = [pc |-> "idle"]
  /\ steps = 0

Init ==
  /\ \E d \in Dims, i \in 1..Len(Palette), j \in 1..Len(Palette), mask \in Masks :
       /\ i <= j
       /\ width = d[1]
       /\ height = d[2]
       /\ pixels = Tile(Palette[i], Palette[j], mask, d[1] * d[2])
  /\ call = NoCall
  /\ ret = << >>
  /\ InitSelectors
  /\ InitEditor

(* Each behaviour applies one packer to the buffer drawn by Init: the       *)
(* packers keep no state between calls, so a call is modelled from the     *)
(* idle state only.                                                        *)
Call_pack1bit ==
  \E o \in Orientations :
    /\ call = NoCall
    /\ call' = [fn |-> "pack1bit", orientation |-> o]
    /\ ret' = pack1bit(pixels, width, height, o)
    /\ UNCHANGED <<pixels, width, height, genVars, editVars>>

Call_pack1bitAlpha ==
  \E o \in Orientations :
    /\ call = NoCall
    /\ call' = [fn |-> "pack1bitAlpha", orientation |-> o]
    /\ ret' = pack1bitAlpha(pixels, width, height, o)
    /\ UNCHANGED <<pixels, width, height, genVars, editVars>>

Call_packRGB565 ==
  /\ call = NoCall
  /\ call' = [fn |-> "packRGB565", orientation |-> "none"]
  /\ ret' = packRGB565(pixels, width, height)
  /\ UNCHANGED <<pixels, width, height, genVars, editVars>>

Call_packRGB24 ==
  /\ call = NoCall
  /\ call' = [fn |-> "packRGB24", orientation |-> "none"]
  /\ ret' = packRGB24(pixels, width, height)
  /\ UNCHANGED <<pixels, width, height, genVars, editVars>>

Call_packRGB332 ==
  /\ call = NoCall
  /\ call' = [fn |-> "packRGB332", orientation |-> "none"]
  /\ ret' = packRGB332(pixels, width, height)
  /\ UNCHANGED <<pixels, width, height, genVars, editVars>>

(* the packing stage of generateCppCode under each draw mode of the selector *)
Call_drawModeBytes ==
  \E m \in DrawModes :
    /\ call = NoCall
    /\ call' = [fn |-> m, orientation |-> "none"]
    /\ ret' = drawModeBytes(m, pixels, width, height)
    /\ UNCHANGED <<pixels, width, height, genVars, editVars>>

Next ==
  \/ Call_pack1bit
  \/ Call_pack1bitAlpha
  \/ Call_packRGB565
  \/ Call_packRGB24
  \/ Call_packRGB332
  \/ Call_drawModeBytes

Spec == Init /\ [][Next]_vars

----------------------------------------------------------------------------
(* packGray4 on buffers that walk a palette of grays and colours: pixel i  *)
(* is palette entry start + i*stride (mod the palette size).               *)

GrayPalette ==
  << black, Pixel(85, 85, 85, 255), Pixel(170, 170, 170, 255), white,
     Pixel(80, 80, 80, 255), Pixel(79, 79, 79, 0), Pixel(255, 0, 0, 255),
     Pixel(0, 255, 0, 255), Pixel(0, 0, 255, 255), Pixel(12, 175, 4, 255),
     Pixel(13, 175, 4, 255) >>

Ramp(start, stride, n) ==
  [i \in 1..n |-> GrayPalette[((start + (i - 1) * stride) % Len(GrayPalette)) + 1]]

InitGray4 ==
  /\ \E w \in 1..MaxGrayW, h \in 1..MaxGrayH,
        start \in 0..(Len(GrayPalette) - 1), stride \in 0..MaxStride :
       /\ width = w
       /\ height = h
       /\ pixels = Ramp(start, stride, w * h)
  /\ call = NoCall
  /\ ret = << >>
  /\ InitSelectors
  /\ InitEditor

Call_packGray4 ==
  /\ call = NoCall
  /\ call' = [fn |-> "packGray4", orientation |-> "none"]
  /\ ret' = packGray4(pixels, width, height)
  /\ UNCHANGED <<pixels, width, height, genVars, editVars>>

NextGray4 == Call_packGray4

SpecGray4 == InitGray4 /\ [][NextGray4]_vars

----------------------------------------------------------------------------
(* Properties *)

(* bit n of v, bit 0 the least significant *)
Bit(v, n) == (v \div Pow2(n)) % 2

Sum(p) == p.r + p.g + p.b

IsCall(fn, o) == call.fn = fn /\ call.orientation = o

(* the pixel at column x, row y of the buffer *)
Px(x, y) == pixels[y * width + x + 1]

(* the bit at the place the horizontal layout gives column k of row y *)
HBit(k, y) == Bit(ret[y * CeilDiv(width, 8) + (k \div 8) + 1], 7 - (k % 8))

(* the bit at the place the vertical layout gives row k of column x *)
VBit(x, k) == Bit(ret[x * CeilDiv(height, 8) + (k \div 8) + 1], 7 - (k % 8))

(* the bit of pixel (x, y) under the orientation of the current call *)
PixelBit(x, y) == IF call.orientation = "horizontal" THEN HBit(x, y) ELSE VBit(x, y)

Flag(b) == IF b THEN 1 ELSE 0

Some(P(_)) == \E i \in 1..Len(pixels) : P(pixels[i])

(* the buffer alternates pa, pb, pa, ... starting with pa *)
Alternates(pa, pb) ==
  \A i \in 1..Len(pixels) : pixels[i] = IF i % 2 = 1 THEN pa ELSE pb

AllAre(pa) == \A i \in 1..Len(pixels) : pixels[i] = pa

(* C1: pack1bit(buf, w, h, 'horizontal') returns ceil(w/8)*h bytes; the bit *)
(* of pixel (x, y) is bit 7 - x mod 8 of byte y*ceil(w/8) + floor(x/8) and  *)
(* is 1 exactly when the pixel is on; every row starts a fresh byte and the *)
(* unused low-order bits of a row's last byte are 0.                        *)
C1_HorizontalLayout ==
  IsCall("pack1bit", "horizontal") =>
    /\ Len(ret) = CeilDiv(width, 8) * height
    /\ \A i \in 1..Len(ret) : ret[i] \in 0..255
    /\ \A y \in 0..(height - 1) : \A k \in 0..(8 * CeilDiv(width, 8) - 1) :
         HBit(k, y) = Flag(k < width /\ on1bit(Px(k, y)))

C1_Witness ==
  /\ IsCall("pack1bit", "horizontal")
  /\ width > 8 /\ width % 8 # 0 /\ height > 1
  /\ Some(on1bit)
  /\ on1bit(Px(width - 1, 0)) /\ on1bit(Px(0, 1))
  /\ \E i \in 1..Len(pixels) : ~on1bit(pixels[i])

(* C2: pack1bit(buf, w, h, 'vertical') returns w*ceil(h/8) bytes in         *)
(* column-major order; the bit of pixel (x, y) is bit 7 - y mod 8 of byte   *)
(* x*ceil(h/8) + floor(y/8) and is 1 exactly when the pixel is on; bit      *)
(* positions of a page at or beyond row h are 0.                            *)
C2_VerticalLayout ==
  IsCall("pack1bit", "vertical") =>
    /\ Len(ret) = width * CeilDiv(height, 8)
    /\ \A i \in 1..Len(ret) : ret[i] \in 0..255
    /\ \A x \in 0..(width - 1) : \A k \in 0..(8 * CeilDiv(height, 8) - 1) :
         VBit(x, k) = Flag(k < height /\ on1bit(Px(x, k)))

C2_Witness ==
  /\ IsCall("pack1bit", "vertical")
  /\ height > 8 /\ height % 8 # 0 /\ width > 1
  /\ on1bit(Px(0, height - 1)) /\ on1bit(Px(1, 0))
  /\ \E i \in 1..Len(pixels) : ~on1bit(pixels[i])

(* C3 as stated: in both orientations a pixel's bit is 1 exactly when       *)
(* r+g+b is greater than 381 (so a sum of 382 is on), whatever its alpha.   *)
C3_OnAbove381 ==
  call.fn = "pack1bit" =>
    \A y \in 0..(height - 1) : \A x \in 0..(width - 1) :
      PixelBit(x, y) = Flag(Sum(Px(x, y)) > 381)

(* C3 amended: in both orientations a pixel's bit is 1 exactly when r+g+b   *)
(* is greater than 382.5, that is at least 383: a sum of 383 is on, a sum   *)
(* of 382 is off, and the pixel's alpha never changes the result.           *)
C3_OnAbove382 ==
  call.fn = "pack1bit" =>
    \A y \in 0..(height - 1) : \A x \in 0..(width - 1) :
      PixelBit(x, y) = Flag(Sum(Px(x, y)) >= 383)

C3_Witness ==
  /\ call.fn = "pack1bit"
  /\ \E i, j \in 1..Len(pixels) :
       /\ Sum(pixels[i]) = 382 /\ pixels[i].a > 0
       /\ Sum(pixels[j]) = 383 /\ pixels[j].a = 0
  /\ \E n \in 1..Len(ret) : ret[n] # 0

(* C4: pack1bit packs opaque black as a 1 bit and opaque white as a 0 bit:  *)
(* 8x1 alternating black, white, ... packs horizontally to [0xAA], 1x8 with *)
(* the same alternation packs vertically to [0xAA], and a 10x1 row of black *)
(* packs horizontally to [0xFF, 0xC0].                                      *)
C4_BlackIsOn ==
  /\ call.fn = "pack1bit" =>
       \A y \in 0..(height - 1) : \A x \in 0..(width - 1) :
         /\ Px(x, y) = black => PixelBit(x, y) = 1
         /\ Px(x, y) = white => PixelBit(x, y) = 0
  /\ (IsCall("pack1bit", "horizontal") /\ width = 8 /\ height = 1
        /\ Alternates(black, white)) => ret = <<170>>
  /\ (IsCall("pack1bit", "vertical") /\ width = 1 /\ height = 8
        /\ Alternates(black, white)) => ret = <<170>>
  /\ (IsCall("pack1bit", "horizontal") /\ width = 10 /\ height = 1
        /\ AllAre(black)) => ret = <<255, 192>>

C5_WitnessVertical ==
  IsCall("pack1bit", "vertical") /\ width = 1 /\ height = 8 /\ Alternates(white, black)

C5_WitnessRow10 ==
  IsCall("pack1bit", "horizontal") /\ width = 10 /\ height = 1 /\ AllAre(white)

(* C6: for 'horizontal' and for 'vertical', pack1bitAlpha returns as many   *)
(* bytes as pack1bit on the same buffer and dimensions, with each pixel's   *)
(* bit at the same byte and bit position, and the bit is 1 exactly when the *)
(* pixel's alpha is greater than 127, whatever r, g and b are; 8 white      *)
(* pixels with alpha 255, 0, 255, 0, ... pack to [0xAA].                    *)
C6_AlphaMask ==
  /\ call.fn = "pack1bitAlpha" =>
       /\ Len(ret) = Len(pack1bit(pixels, width, height, call.orientation))
       /\ Len(ret) = IF call.orientation = "horizontal"
                       THEN CeilDiv(width, 8) * height
                       ELSE width * CeilDiv(height, 8)
       /\ \A y \in 0..(height - 1) : \A x \in 0..(width - 1) :
            PixelBit(x, y) = Flag(Px(x, y).a > 127)
  /\ (IsCall("pack1bitAlpha", "horizontal") /\ width = 8 /\ height = 1
        /\ Alternates(white, Pixel(255, 255, 255, 0))) => ret = <<170>>

C6_Witness ==
  /\ call.fn = "pack1bitAlpha"
  /\ width > 1 /\ height > 1
  /\ \E i, j \in 1..Len(pixels) :
       /\ pixels[i].a = 127 /\ Sum(pixels[i]) > 0
       /\ pixels[j].a = 128
  /\ \E n \in 1..Len(ret) : ret[n] # 0

C6_WitnessScenario ==
  /\ IsCall("pack1bitAlpha", "horizontal") /\ width = 8 /\ height = 1
  /\ Alternates(white, Pixel(255, 255, 255, 0))

(* the 16-bit word the claim gives a pixel: 5 bits of r, 6 of g, 5 of b *)
Word565(p) == (p.r \div 8) * 2048 + (p.g \div 4) * 32 + (p.b \div 8)

(* C7: packRGB565 returns w*h words in row-major order, word y*w + x being  *)
(* ((r>>3)<<11) | ((g>>2)<<5) | (b>>3) of pixel (x, y), alpha ignored; pure *)
(* red, green and blue give 0xF800, 0x07E0 and 0x001F.                      *)
C7_RGB565Words ==
  call.fn = "packRGB565" =>
    /\ Len(ret) = width * height
    /\ \A y \in 0..(height - 1) : \A x \in 0..(width - 1) :
         LET p == Px(x, y)
             word == ret[y * width + x + 1]
         IN /\ word = Word565(p)
            /\ (p.r = 255 /\ p.g = 0 /\ p.b = 0) => word = 63488
            /\ (p.r = 0 /\ p.g = 255 /\ p.b = 0) => word = 2016
            /\ (p.r = 0 /\ p.g = 0 /\ p.b = 255) => word = 31

C7_Witness ==
  /\ call.fn = "packRGB565"
  /\ width > 1 /\ height > 1
  /\ \E i, j \in 1..Len(pixels) :
       /\ pixels[i] = Pixel(0, 255, 0, 255)
       /\ pixels[j] = Pixel(127, 128, 128, 0)

(* C8 as stated: every word packRGB565 produces has bit 15 equal to 0.      *)
C8_TopBitZero ==
  call.fn = "packRGB565" =>
    \A i \in 1..Len(ret) : Bit(ret[i], 15) = 0

(* C8 amended: every word packRGB565 produces is in 0..65535 (the 5+6+5     *)
(* bits fill 16 bits without overflow) and its bit 15 is the top bit of the *)
(* pixel's r: 1 exactly when r >= 128.                                      *)
C8_TopBitIsRedMsb ==
  call.fn = "packRGB565" =>
    \A i \in 1..Len(ret) :
      /\ ret[i] \in 0..65535
      /\ Bit(ret[i], 15) = Flag(pixels[i].r >= 128)

C8_Witness ==
  /\ call.fn = "packRGB565"
  /\ \E i, j \in 1..Len(ret) :
       /\ pixels[i].r >= 128 /\ ret[i] >= 32768
       /\ pixels[j].r < 128 /\ ret[j] < 32768

(* C9: packRGB24 returns 3*w*h bytes, bytes 3i, 3i+1, 3i+2 being the r, g,  *)
(* b of pixel i in row-major order; the RGBA32 draw mode produces 4*w*h     *)
(* bytes, bytes 4i..4i+3 being the r, g, b, a of pixel i; channel values    *)
(* are copied unchanged.                                                    *)
C9_RGB24AndRGBA32 ==
  /\ call.fn \in {"packRGB24", "HORIZONTAL_RGB888_24"} =>
       /\ Len(ret) = 3 * width * height
       /\ \A i \in 0..(width * height - 1) :
            /\ ret[3 * i + 1] = pixels[i + 1].r
            /\ ret[3 * i + 2] = pixels[i + 1].g
            /\ ret[3 * i + 3] = pixels[i + 1].b
  /\ call.fn = "HORIZONTAL_RGB888_32" =>
       /\ Len(ret) = 4 * width * height
       /\ \A i \in 0..(width * height - 1) :
            /\ ret[4 * i + 1] = pixels[i + 1].r
            /\ ret[4 * i + 2] = pixels[i + 1].g
            /\ ret[4 * i + 3] = pixels[i + 1].b
            /\ ret[4 * i + 4] = pixels[i + 1].a

C9_Witness ==
  /\ call.fn = "packRGB24"
  /\ width > 1 /\ height > 1
  /\ \E i \in 1..Len(pixels) : pixels[i] = Pixel(18, 52, 86, 255)
  /\ \E i \in 1..Len(pixels) : pixels[i] = Pixel(0, 0, 255, 255)

C9_WitnessRGBA32 ==
  /\ call.fn = "HORIZONTAL_RGB888_32"
  /\ width > 1 /\ height > 1
  /\ \E i \in 1..Len(pixels) : pixels[i] = Pixel(127, 127, 128, 128)
  /\ \E i \in 1..Len(pixels) : pixels[i] = Pixel(18, 52, 86, 255)

(* C10: packRGB332 returns w*h bytes in row-major order, each equal to      *)
(* ((r>>5)<<5) | ((g>>5)<<2) | (b>>6) of its pixel and so in 0..255; pure   *)
(* red, green and blue give 0xE0, 0x1C and 0x03.                            *)
C10_RGB332Bytes ==
  call.fn = "packRGB332" =>
    /\ Len(ret) = width * height
    /\ \A y \in 0..(height - 1) : \A x \in 0..(width - 1) :
         LET p == Px(x, y)
             byte == ret[y * width + x + 1]
         IN /\ byte = (p.r \div 32) * 32 + (p.g \div 32) * 4 + (p.b \div 64)
            /\ byte \in 0..255
            /\ (p.r = 255 /\ p.g = 0 /\ p.b = 0) => byte = 224
            /\ (p.r = 0 /\ p.g = 255 /\ p.b = 0) => byte = 28
            /\ (p.r = 0 /\ p.g = 0 /\ p.b = 255) => byte = 3

C10_Witness ==
  /\ call.fn = "packRGB332"
  /\ width > 1 /\ height > 1
  /\ \E i, j \in 1..Len(pixels) :
       /\ pixels[i] = Pixel(0, 0, 255, 255)
       /\ pixels[j] = Pixel(127, 127, 128, 128)

-----------------------------------------------------------------------------
(* The code generator on what the editor state can hold: a name typed by   *)
(* the user, the two selectors, a canvas size and a pixel buffer whose      *)
(* length is w*h or off by one (the state between a size change and the     *)
(* resize of the buffer).                                                   *)

MaxGenW == 3
MaxGenH == 2
MaxGenStride == 1

GenPalette ==
  << black, white, transparent, Pixel(0, 0, 255, 255), Pixel(200, 100, 50, 100) >>

GenRamp(start, stride, n) ==
  [i \in 1..n |-> GenPalette[((start + (i - 1) * stride) % Len(GenPalette)) + 1]]

Names ==
  { <<"s", "p", "r", "i", "t", "e">>,
    <<"m", "y", "-", "i", "c", "o", "n", " ", "2">>,
    <<"_", "Z", "9", ".", "h">>,
    <<"!", "~">>,
    << >> }

InitGen ==
  /\ \E w \in 1..MaxGenW, h \in 1..MaxGenH, start \in 0..(Len(GenPalette) - 1),
        stride \in 0..MaxGenStride, extra \in {-1, 0, 1} :
       /\ width = w
       /\ height = h
       /\ pixels = GenRamp(start, stride, w * h + extra)
  /\ drawMode \in SidebarDrawModes
  /\ outputFormat \in SelectableFormats
  /\ name \in Names
  /\ call = NoCall
  /\ ret = << >>
  /\ code = [kind |-> "none"]
  /\ InitEditor

Call_generateCppCode ==
  /\ call = NoCall
  /\ call' = [fn |-> "generateCppCode", orientation |-> "none"]
  /\ code' = generateCppCode(name, drawMode, outputFormat, pixels, width, height)
  /\ UNCHANGED <<pixels, width, height, drawMode, outputFormat, name, ret, editVars>>

Call_exportCpp ==
  /\ call = NoCall
  /\ call' = [fn |-> "exportCpp", orientation |-> "none"]
  /\ code' = generateCppCode(name, drawMode, outputFormat, pixels, width, height)
  /\ ret' = exportCpp(name, drawMode, outputFormat, pixels, width, height)
  /\ UNCHANGED <<pixels, width, height, drawMode, outputFormat, name, editVars>>

NextGen ==
  \/ Call_generateCppCode
  \/ Call_exportCpp

SpecGen == InitGen /\ [][NextGen]_vars

-----------------------------------------------------------------------------
(* the 4-bit value packGray4 stored for pixel (x, y): byte floor(x/2) of   *)
(* row y, high nibble for even x, low nibble for odd x                     *)
Nibble(x, y) ==
  LET byte == ret[y * CeilDiv(width, 2) + (x \div 2) + 1]
  IN IF x % 2 = 0 THEN byte \div 16 ELSE byte % 16

(* C11: packGray4 returns h*ceil(w/2) bytes; in each row pixel x puts its   *)
(* 4-bit level in byte floor(x/2) of that row, high nibble for even x, low  *)
(* nibble for odd x; for odd w the row's last byte has a zero low nibble,   *)
(* and no byte holds pixels of two rows.                                    *)
C11_Gray4Layout ==
  call.fn = "packGray4" =>
    /\ Len(ret) = height * CeilDiv(width, 2)
    /\ \A i \in 1..Len(ret) : ret[i] \in 0..255
    /\ \A y \in 0..(height - 1) : \A x \in 0..(2 * CeilDiv(width, 2) - 1) :
         Nibble(x, y) = IF x < width THEN gray4(Px(x, y)) ELSE 0

C11_Witness ==
  /\ call.fn = "packGray4"
  /\ width >= 3 /\ width % 2 = 1 /\ height >= 2
  /\ gray4(Px(width - 1, 0)) > 0 /\ gray4(Px(0, 1)) > 0
  /\ gray4(Px(0, 1)) # gray4(Px(1, 1))

(* C12 as stated: the level of a pixel is (0.2126r + 0.7152g + 0.0722b)/16  *)
(* rounded to the nearest integer, then clamped to 0..15 (r=g=b=170 gets    *)
(* level 11).                                                               *)
C12_LevelRounded ==
  call.fn = "packGray4" =>
    \A y \in 0..(height - 1) : \A x \in 0..(width - 1) :
      LET p == Px(x, y)
      IN /\ Nibble(x, y) = Min(15, Max(0, (LumaTimes10000(p) + 80000) \div 160000))
         /\ (p.r = 170 /\ p.g = 170 /\ p.b = 170) => Nibble(x, y) = 11

(* C12 amended: the level k of a pixel is the quotient                      *)
(* q = (0.2126r + 0.7152g + 0.0722b)/16 rounded down (Math.floor of the     *)
(* double-precision value) and clamped to 0..15: k <= q, and q < k + 1      *)
(* except where q is exactly the integer k + 1 and the double evaluation    *)
(* falls just below it; r=g=b=170 (q = 10.625) gets level 10, r=g=b=255     *)
(* gets 15 and r=g=b=80 (q = 5 exactly) gets 4.                             *)
C12_LevelFloored ==
  call.fn = "packGray4" =>
    \A y \in 0..(height - 1) : \A x \in 0..(width - 1) :
      LET p == Px(x, y)
          k == Nibble(x, y)
          n == LumaTimes10000(p)
      IN /\ k \in 0..15
         /\ 160000 * k <= n
         /\ n <= 160000 * (k + 1)
         /\ (n = 160000 * (k + 1)) => (p.r # p.g \/ p.r \in {80, 112, 160, 208, 224})
         /\ (p.r = 170 /\ p.g = 170 /\ p.b = 170) => k = 10
         /\ (p.r = 255 /\ p.g = 255 /\ p.b = 255) => k = 15
         /\ (p.r = 80 /\ p.g = 80 /\ p.b = 80) => k = 4

C12_Witness ==
  /\ call.fn = "packGray4"
  /\ \E i, j \in 1..Len(pixels) :
       /\ pixels[i] = Pixel(170, 170, 170, 255)
       /\ pixels[j] = Pixel(80, 80, 80, 255)
  /\ \E n \in 1..Len(ret) : ret[n] \in {164, 74}

(* C13: packGray4 maps black to level 0 and white to level 15, levels are   *)
(* non-decreasing in brightness, and the 4x1 row of grays 0, 85, 170, 255   *)
(* gets levels 0, 5, 10, 15 and packs to [0x05, 0xAF].                      *)
C13_Gray4Scale ==
  call.fn = "packGray4" =>
    /\ \A y \in 0..(height - 1) : \A x \in 0..(width - 1) :
         /\ (Sum(Px(x, y)) = 0) => Nibble(x, y) = 0
         /\ (Sum(Px(x, y)) = 765) => Nibble(x, y) = 15
         /\ \A y2 \in 0..(height - 1) : \A x2 \in 0..(width - 1) :
              LumaTimes10000(Px(x, y)) < LumaTimes10000(Px(x2, y2))
                => Nibble(x, y) <= Nibble(x2, y2)
    /\ (width = 4 /\ height = 1
          /\ pixels = << black, Pixel(85, 85, 85, 255),
                         Pixel(170, 170, 170, 255), white >>)
         => ret = <<5, 175>>

C13_Witness ==
  /\ call.fn = "packGray4"
  /\ width = 4 /\ height = 1
  /\ pixels = << black, Pixel(85, 85, 85, 255), Pixel(170, 170, 170, 255), white >>
  /\ ret = <<5, 175>>

(* helpers over the generated text *)
IsGen == call.fn \in {"generateCppCode", "exportCpp"}

Pieces == {<<i, j>> \in (1..Len(code.text)) \X (1..12) : j <= Len(code.text[i])}

Piece(ij) == code.text[ij[1]][ij[2]]

StartsWith(line, s) == Len(line) >= 1 /\ line[1].t = "txt" /\ line[1].v = s

HasLine(s) == \E i \in 1..Len(code.text) : StartsWith(code.text[i], s)

HasPiece(s) == \E ij \in Pieces : Piece(ij).t = "txt" /\ Piece(ij).v = s

UpperHex ==
  {"0", "1", "2", "3", "4", "5", "6", "7", "8", "9", "A", "B", "C", "D", "E", "F"}

(* C15 as stated: when the buffer's length differs from width*height the    *)
(* generation is rejected with an error and nothing is produced, whether    *)
(* the buffer is longer or shorter.                                         *)
C15_MismatchRejected ==
  (IsGen /\ Len(pixels) # width * height) =>
    /\ code.kind = "throw"
    /\ ret = << >>

(* C16 as stated: with a draw mode or an output format that the generator   *)
(* does not recognize, generateCppCode fails with an explicit               *)
(* unsupported-combination error; it returns no template text and no text   *)
(* built from undefined data.                                               *)
C16_UnsupportedRejected ==
  (IsGen /\ (drawMode \notin DrawModes \/ outputFormat \notin OutputFormats)) =>
    /\ code.kind # "text"
    /\ code.kind = "throw"
    /\ code.error = "UnsupportedCombination"

(* C17 as stated: with an output format outside the four and a draw mode    *)
(* that the fallback does not handle, generateCppCode raises nothing and    *)
(* returns undefined.                                                       *)
C17_FallbackReturnsUndefined ==
  (/\ IsGen
   /\ outputFormat \notin OutputFormats
   /\ drawMode \notin {"HORIZONTAL_1BIT", "HORIZONTAL_RGB565"}
   /\ Len(pixels) = width * height) =>
    code.kind = "undefined"

(* C18 as stated: in every emitter and for every draw mode each packed      *)
(* element is written as 0x and uppercase hex digits, exactly 4 of them for *)
(* the 16-bit words of RGB565 and exactly 2 for 8-bit elements.             *)
C18_HexLiteralWidth ==
  (IsGen /\ code.kind = "text") =>
    \A ij \in Pieces :
      Piece(ij).t = "list" =>
        \A n \in 1..Len(Piece(ij).v) :
          LET lit == Piece(ij).v[n]
              digits == IF drawMode = "HORIZONTAL_RGB565" THEN 4 ELSE 2
          IN /\ Len(lit) = 2 + digits
             /\ lit[1] = "0" /\ lit[2] = "x"
             /\ \A k \in 3..Len(lit) : lit[k] \in UpperHex

(* C19: the sanitized name has the length of the name, keeps each character *)
(* of [A-Za-z0-9_] in place and has an underscore at every other position;  *)
(* sanitizing twice equals sanitizing once; every identifier of the          *)
(* generated text is built on it and the exported file is <sanitized>.h.    *)
C19_SanitizedName ==
  IsGen =>
    LET Kept(c) == IF c \in IdentChars THEN c ELSE "_"
        IsSanitized(s) == /\ Len(s) = Len(name)
                          /\ \A k \in 1..Len(name) : s[k] = Kept(name[k])
    IN /\ IsSanitized(safeName(name))
       /\ safeName(safeName(name)) = safeName(name)
       /\ code.kind = "text" =>
            \A ij \in Pieces : Piece(ij).t = "name" => IsSanitized(Piece(ij).v)
       /\ (call.fn = "exportCpp" /\ code.kind = "text") =>
            /\ Len(ret) = 1
            /\ Len(ret[1].filename) = Len(name) + 2
            /\ IsSanitized(SubSeq(ret[1].filename, 1, Len(name)))
            /\ SubSeq(ret[1].filename, Len(name) + 1, Len(name) + 2) = <<".", "h">>

C19_Witness ==
  /\ call.fn = "exportCpp"
  /\ name = <<"m", "y", "-", "i", "c", "o", "n", " ", "2">>
  /\ code.kind = "text"
  /\ \E ij \in Pieces :
       /\ Piece(ij).t = "name"
       /\ Piece(ij).v = <<"m", "y", "_", "i", "c", "o", "n", "_", "2">>
  /\ ret[1].filename = <<"m", "y", "_", "i", "c", "o", "n", "_", "2", ".", "h">>

(* C20 as stated: for every supported draw mode the Arduino sketch has the  *)
(* display-library include of the mode's hardware family (the OLED library  *)
(* for the 1-bit modes and the alpha mask, a colour-TFT library for RGB565, *)
(* RGB24 and RGBA32), the width and height constants, the PROGMEM array and *)
(* a setup()/loop() pair; the RGBA32 sketch tests the alpha of each pixel.  *)
C20_SketchComplete ==
  (/\ IsGen
   /\ outputFormat = "ARDUINO_CODE"
   /\ drawMode \in DrawModes
   /\ Len(pixels) = width * height) =>
    /\ code.kind = "text"
    /\ IF drawMode \in {"HORIZONTAL_1BIT", "VERTICAL_1BIT", "HORIZONTAL_ALPHA"}
         THEN HasLine("#include <Adafruit_SSD1306.h>")
         ELSE \/ HasLine("#include <Adafruit_ST7735.h>")
              \/ HasLine("#include <Adafruit_ST7789.h>")
              \/ HasLine("#include <Adafruit_ILI9341.h>")
    /\ \E i \in 1..Len(code.text) :
         /\ Len(code.text[i]) = 5
         /\ StartsWith(code.text[i], "const uint16_t ")
         /\ code.text[i][3].v = "_w = "
         /\ code.text[i][4].t = "num" /\ code.text[i][4].v = width
    /\ \E i \in 1..Len(code.text) :
         /\ Len(code.text[i]) = 5
         /\ StartsWith(code.text[i], "const uint16_t ")
         /\ code.text[i][3].v = "_h = "
         /\ code.text[i][4].t = "num" /\ code.text[i][4].v = height
    /\ HasPiece("[] PROGMEM = {")
    /\ HasLine("void setup() {")
    /\ HasLine("void loop() {}") \/ HasLine("void loop() {")
    /\ drawMode = "HORIZONTAL_RGB888_32" =>
         \/ HasLine("      if (a > 127) {")
         \/ HasLine("      // Only draw if alpha > threshold")

-----------------------------------------------------------------------------
(* Pixel2CPP.jsx, the editor.  A buffer is a JavaScript array: reading past *)
(* its end or reading a hole gives undefined, writing past its end leaves   *)
(* holes, and the copy { ...p } of undefined is an empty object.  The three *)
(* non-pixel values are kept apart from the pixels by negative channels.    *)

undefinedElem == Pixel(-1, -1, -1, -1)
arrayHole == Pixel(-2, -2, -2, -2)
emptyObject == Pixel(-3, -3, -3, -3)

(* const idx = (x, y) => y * w + x *)
idx(x, y, w) == y * w + x

(* d[i] *)
Elem(d, i) ==
  IF i >= Len(d) THEN undefinedElem
  ELSE IF d[i + 1] = arrayHole THEN undefinedElem
  ELSE d[i + 1]

(* d[i] = v *)
SetElem(d, i, v) ==
  [k \in 1..Max(Len(d), i + 1) |->
     IF k = i + 1 THEN v ELSE IF k <= Len(d) THEN d[k] ELSE arrayHole]

(* colors.js, rgbaEq: a.r === b.r && ...; reading .r of undefined throws,   *)
(* the fields of an empty object are all undefined                          *)
rgbaEqThrows(a, b) == a = undefinedElem \/ b = undefinedElem

rgbaEq(a, b) == a = b

(* d.map((p) => ({ ...p })): map skips holes *)
copyPixel(p) ==
  IF p = arrayHole THEN arrayHole
  ELSE IF p = undefinedElem THEN emptyObject
  ELSE p

copyBuffer(d) == [k \in 1..Len(d) |-> copyPixel(d[k])]

(* Array.from({ length: w * h }, () => transparent()) *)
blankBuffer(w, h) == [k \in 1..(w * h) |-> transparent]

floodFillStep_noBoundsCheck(st, w, h, target, replacement) ==
  LET top == st.stack[Len(st.stack)]
      rest == SubSeq(st.stack, 1, Len(st.stack) - 1)
      x == top[1]
      y == top[2]
      i == idx(x, y, w)
  IN IF i < 0 \/ i >= w * h THEN [st EXCEPT !.stack = rest]
     ELSE IF rgbaEqThrows(Elem(st.d, i), target)
       THEN [st EXCEPT !.stack = rest, !.thrown = TRUE]
     ELSE IF ~rgbaEq(Elem(st.d, i), target) THEN [st EXCEPT !.stack = rest]
     ELSE [stack |-> rest \o << <<x + 1, y>>, <<x - 1, y>>, <<x, y + 1>>, <<x, y - 1>> >>,
           d |-> SetElem(st.d, i, replacement),
           thrown |-> FALSE]

(* floodFill, one turn of while (stack.length): pop, skip a cell outside    *)
(* the canvas or of another colour, else recolour it and push its four      *)
(* neighbours                                                               *)
floodFillStep(st, w, h, target, replacement) ==
  LET top == st.stack[Len(st.stack)]
      rest == SubSeq(st.stack, 1, Len(st.stack) - 1)
      x == top[1]
      y == top[2]
      i == idx(x, y, w)
  IN IF x < 0 \/ y < 0 \/ x >= w \/ y >= h THEN [st EXCEPT !.stack = rest]
     ELSE IF rgbaEqThrows(Elem(st.d, i), target)
       THEN [st EXCEPT !.stack = rest, !.thrown = TRUE]
     ELSE IF ~rgbaEq(Elem(st.d, i), target) THEN [st EXCEPT !.stack = rest]
     ELSE [stack |-> rest \o << <<x + 1, y>>, <<x - 1, y>>, <<x, y + 1>>, <<x, y - 1>> >>,
           d |-> SetElem(st.d, i, replacement),
           thrown |-> FALSE]

RECURSIVE floodFillLoop(_, _, _, _, _)
floodFillLoop(st, w, h, target, replacement) ==
  IF st.thrown \/ st.stack = << >> THEN st
  ELSE floodFillLoop(floodFillStep(st, w, h, target, replacement), w, h, target, replacement)

(* floodFill as one call: what it passes to setData, if anything *)
floodFill(data, w, h, sx, sy, target, replacement) ==
  IF rgbaEqThrows(target, replacement) THEN [kind |-> "throw"]
  ELSE IF rgbaEq(target, replacement) THEN [kind |-> "return"]
  ELSE LET end == floodFillLoop([stack |-> << <<sx, sy>> >>, d |-> data, thrown |-> FALSE],
                                w, h, target, replacement)
       IN IF end.thrown THEN [kind |-> "throw"] ELSE [kind |-> "setData", d |-> end.d]

-----------------------------------------------------------------------------
(* floodFill step by step: the stack and the working copy d are state, one  *)
(* action per turn of the loop.  The canvas is two colours laid out by a    *)
(* repeating mask, the start cell any cell of the canvas or just left of    *)
(* it.                                                                      *)

MaxFillW == 3
MaxFillH == 3

FillMasks ==
  { <<TRUE>>, <<TRUE, FALSE>>, <<FALSE, TRUE>>, <<TRUE, TRUE, FALSE>>,
    <<TRUE, FALSE, FALSE>>, <<FALSE, TRUE, TRUE>>, <<TRUE, FALSE, TRUE, TRUE>>,
    <<TRUE, TRUE, FALSE, TRUE, FALSE>> }

FillColours == {transparent, black, white}

InitFill ==
  /\ \E w \in 1..MaxFillW, h \in 1..MaxFillH, mask \in FillMasks :
       /\ width = w
       /\ height = h
       /\ pixels = Tile(transparent, black, mask, w * h)
  /\ \E sx \in -1..(width - 1), sy \in 0..(height - 1),
        target \in {transparent, black}, replacement \in FillColours :
       fillTask = [pc |-> "idle", sx |-> sx, sy |-> sy, target |-> target,
                   replacement |-> replacement, data |-> pixels]
  /\ stack = << >>
  /\ ret = << >>
  /\ call = NoCall
  /\ InitSelectors
  /\ history = << >>
  /\ redo = << >>
  /\ tool = "fill"
  /\ isMouseDown = FALSE
  /\ primary = black
  /\ prevSize = [w |-> width, h |-> height]
  /\ pending = << >>
  /\ strokeStart = << >>
  /\ dirty = FALSE
  /\ steps = 0

fillFrame ==
  <<width, height, call, genVars, history, redo, tool, isMouseDown, primary,
    prevSize, pending, strokeStart, dirty, steps>>

(* if (rgbaEq(target, replacement)) return; const stack = [[sx, sy]];        *)
(* const d = data.slice();                                                  *)
floodFillCall ==
  /\ fillTask.pc = "idle"
  /\ IF rgbaEq(fillTask.target, fillTask.replacement)
       THEN /\ fillTask' = [fillTask EXCEPT !.pc = "done"]
            /\ UNCHANGED <<stack, ret>>
       ELSE /\ fillTask' = [fillTask EXCEPT !.pc = "loop"]
            /\ stack' = << <<fillTask.sx, fillTask.sy>> >>
            /\ ret' = pixels
  /\ UNCHANGED <<pixels, fillFrame>>

(* one turn of while (stack.length) *)
floodFillIter ==
  /\ fillTask.pc = "loop"
  /\ stack # << >>
  /\ LET st == floodFillStep([stack |-> stack, d |-> ret, thrown |-> FALSE],
                             width, height, fillTask.target, fillTask.replacement)
     IN /\ stack' = st.stack
        /\ ret' = st.d
        /\ fillTask' = IF st.thrown THEN [fillTask EXCEPT !.pc = "thrown"] ELSE fillTask
  /\ UNCHANGED <<pixels, fillFrame>>

(* setData(d) *)
floodFillSetData ==
  /\ fillTask.pc = "loop"
  /\ stack = << >>
  /\ pixels' = ret
  /\ fillTask' = [fillTask EXCEPT !.pc = "done"]
  /\ UNCHANGED <<stack, ret, fillFrame>>

NextFill ==
  \/ floodFillCall
  \/ floodFillIter
  \/ floodFillSetData

SpecFill == InitFill /\ [][NextFill]_vars /\ WF_vars(NextFill)

-----------------------------------------------------------------------------
(* The editor as a state machine: one action per event handler, run to its  *)
(* end with the state of the render it was created in, then the re-render.  *)
(* The resize effect runs after the render that saw the new size, so it is  *)
(* an action of its own, and no other handler runs before it.  img.onload   *)
(* runs later with the w, h and data of the render in which importImage     *)
(* was called.                                                              *)

MaxEditW == 2
MaxEditH == 2
MaxHistory == 2
MaxPending == 1
MaxSteps == 5

(* useState(white()) *)
secondary == white

Tools == {"pen", "erase", "fill", "eyedropper"}

(* where getXY puts the pointer: the first cell of the first or of the      *)
(* second row, which a canvas one row high does not have, or a place left   *)
(* of and above the canvas                                                  *)
PointerCells == {<<0, 0>>, <<0, 1>>, <<-1, -1>>}

(* useState(false) of mirrorX and mirrorY, the checkboxes left alone *)
MirrorSettings == {FALSE}

inBounds(x, y, w, h) == x >= 0 /\ y >= 0 /\ x < w /\ y < h

(* setHistory((h) => [...h, d.map((p) => ({ ...p }))]) *)
pushHistory(hist, d) == Append(hist, copyBuffer(d))

resizeBuffer_keepsIndex(prev, ow, oh, w, h) ==
  [k \in 1..(w * h) |->
     LET x == (k - 1) % w
         y == (k - 1) \div w
     IN IF x < Min(ow, w) /\ y < Min(oh, h) THEN Elem(prev, y * w + x)
        ELSE transparent]

(* the resize effect's setData((prev) => ...) *)
resizeBuffer(prev, ow, oh, w, h) ==
  [k \in 1..(w * h) |->
     LET x == (k - 1) % w
         y == (k - 1) \div w
     IN IF x < Min(ow, w) /\ y < Min(oh, h) THEN Elem(prev, y * ow + x)
        ELSE transparent]

(* drawAt: setPixel at (x, y) and at its mirror images *)
drawAt(d, w, h, x, y, pix, erase, mirrorX, mirrorY) ==
  IF ~inBounds(x, y, w, h) THEN d
  ELSE LET v == IF erase THEN transparent ELSE pix
           cells == {<<x, y>>}
                      \cup (IF mirrorX THEN {<<w - 1 - x, y>>} ELSE {})
                      \cup (IF mirrorY THEN {<<x, h - 1 - y>>} ELSE {})
                      \cup (IF mirrorX /\ mirrorY THEN {<<w - 1 - x, h - 1 - y>>} ELSE {})
           at == {idx(c[1], c[2], w) : c \in {c \in cells : inBounds(c[1], c[2], w, h)}}
           top == CHOOSE i \in at : \A j \in at : j <= i
       IN [k \in 1..Max(Len(d), top + 1) |->
             IF (k - 1) \in at THEN v
             ELSE IF k <= Len(d) THEN d[k] ELSE arrayHole]

(* handlePointerAction *)
handlePointerAction(d, w, h, x, y, button, mirrorX, mirrorY) ==
  IF ~inBounds(x, y, w, h) THEN d
  ELSE LET color == IF button = "left" THEN primary ELSE secondary
       IN IF tool = "pen" THEN drawAt(d, w, h, x, y, color, FALSE, mirrorX, mirrorY)
          ELSE IF tool = "erase" THEN drawAt(d, w, h, x, y, color, TRUE, mirrorX, mirrorY)
          ELSE d

undoSets_keepsRedo(d, hist, rd) ==
  [data |-> copyBuffer(hist[Len(hist)]),
   history |-> SubSeq(hist, 1, Len(hist) - 1),
   redo |-> rd]

(* what the Undo button sets when canUndo *)
undoSets(d, hist, rd) ==
  [data |-> copyBuffer(hist[Len(hist)]),
   history |-> SubSeq(hist, 1, Len(hist) - 1),
   redo |-> <<copyBuffer(d)>> \o rd]

(* what the Redo button sets when canRedo *)
redoSets(d, hist, rd) ==
  [data |-> copyBuffer(rd[1]),
   history |-> Append(hist, copyBuffer(d)),
   redo |-> SubSeq(rd, 2, Len(rd))]

(* no effect is waiting: the size of the last resize is the current size *)
Settled == prevSize = [w |-> width, h |-> height]

Step == steps < MaxSteps /\ steps' = steps + 1

editFrame == <<call, ret, genVars, stack, fillTask>>

(* a blank canvas of the largest size (useState(64) in the code), pen      *)
(* selected, nothing recorded                                              *)
InitEdit ==
  /\ width = MaxEditW
  /\ height = MaxEditH
  /\ pixels = blankBuffer(width, height)
  /\ call = NoCall
  /\ ret = << >>
  /\ InitSelectors
  /\ InitEditor

(* onChange of the width and height inputs *)
setW ==
  \E n \in 1..MaxEditW :
    /\ Settled /\ Step
    /\ n # width
    /\ width' = n
    /\ UNCHANGED <<pixels, height, history, redo, tool, isMouseDown, primary,
                   prevSize, pending, strokeStart, dirty, editFrame>>

setH ==
  \E n \in 1..MaxEditH :
    /\ Settled /\ Step
    /\ n # height
    /\ height' = n
    /\ UNCHANGED <<pixels, width, history, redo, tool, isMouseDown, primary,
                   prevSize, pending, strokeStart, dirty, editFrame>>

(* useEffect(..., [w, h]) *)
resizeEffect ==
  /\ ~Settled
  /\ pixels' = resizeBuffer(pixels, prevSize.w, prevSize.h, width, height)
  /\ prevSize' = [w |-> width, h |-> height]
  /\ history' = << >>
  /\ redo' = << >>
  /\ dirty' = FALSE
  /\ UNCHANGED <<width, height, tool, isMouseDown, primary, pending,
                 strokeStart, steps, editFrame>>

(* onClick={() => setTool(k)} *)
setTool ==
  \E k \in Tools :
    /\ Settled /\ Step
    /\ k # tool
    /\ tool' = k
    /\ UNCHANGED <<pixels, width, height, history, redo, isMouseDown, primary,
                   prevSize, pending, strokeStart, dirty, editFrame>>

(* handleMouseDown *)
handleMouseDown ==
  \E c \in PointerCells, button \in {"left", "right"},
     mirrorX \in MirrorSettings, mirrorY \in MirrorSettings :
    LET x == c[1]
        y == c[2]
        in == inBounds(x, y, width, height)
    IN /\ Settled /\ Step
       /\ isMouseDown' = TRUE
       /\ IF tool = "fill" THEN
            IF ~in THEN UNCHANGED <<pixels, history, redo, tool, primary, dirty>>
            ELSE /\ Len(history) < MaxHistory
                 /\ history' = pushHistory(history, pixels)
                 /\ redo' = << >>
                 /\ dirty' = FALSE
                 /\ LET color == IF button = "right" THEN secondary ELSE primary
                        filled == floodFill(pixels, width, height, x, y,
                                            Elem(pixels, idx(x, y, width)), color)
                    IN pixels' = IF filled.kind = "setData" THEN filled.d ELSE pixels
                 /\ UNCHANGED <<tool, primary>>
          ELSE IF tool = "eyedropper" THEN
            IF ~in THEN UNCHANGED <<pixels, history, redo, tool, primary, dirty>>
            ELSE /\ primary' = Elem(pixels, idx(x, y, width))
                 /\ tool' = "pen"
                 /\ UNCHANGED <<pixels, history, redo, dirty>>
          ELSE /\ Len(history) < MaxHistory
               /\ history' = pushHistory(history, pixels)
               /\ redo' = << >>
               /\ dirty' = FALSE
               /\ pixels' = handlePointerAction(pixels, width, height, x, y, button,
                                                mirrorX, mirrorY)
               /\ UNCHANGED <<tool, primary>>
       /\ strokeStart' = IF history' # history THEN <<copyBuffer(pixels)>> ELSE << >>
       /\ UNCHANGED <<width, height, prevSize, pending, editFrame>>

(* handleMouseMove *)
handleMouseMove ==
  \E c \in PointerCells, button \in {"left", "right"},
     mirrorX \in MirrorSettings, mirrorY \in MirrorSettings :
    /\ Settled /\ Step
    /\ isMouseDown /\ tool \in {"pen", "erase"}
    /\ pixels' = handlePointerAction(pixels, width, height, c[1], c[2], button,
                                     mirrorX, mirrorY)
    /\ dirty' = (dirty \/ (pixels' # pixels /\ strokeStart = << >>))
    /\ UNCHANGED <<width, height, history, redo, tool, isMouseDown, primary,
                   prevSize, pending, strokeStart, editFrame>>

(* handleMouseUp, and the mouseup listener of the window *)
handleMouseUp ==
  /\ Settled /\ Step
  /\ isMouseDown
  /\ isMouseDown' = FALSE
  /\ strokeStart' = << >>
  /\ UNCHANGED <<pixels, width, height, history, redo, tool, primary, prevSize,
                 pending, dirty, editFrame>>

(* clearCanvas *)
clearCanvas ==
  /\ Settled /\ Step
  /\ Len(history) < MaxHistory
  /\ history' = pushHistory(history, pixels)
  /\ redo' = << >>
  /\ dirty' = FALSE
  /\ pixels' = blankBuffer(width, height)
  /\ UNCHANGED <<width, height, tool, isMouseDown, primary, prevSize, pending,
                 strokeStart, editFrame>>

(* the Undo button *)
undo ==
  /\ Settled /\ Step
  /\ IF Len(history) > 0
       THEN LET set == undoSets(pixels, history, redo)
            IN /\ pixels' = set.data
               /\ history' = set.history
               /\ redo' = set.redo
       ELSE UNCHANGED <<pixels, history, redo>>
  /\ UNCHANGED <<width, height, tool, isMouseDown, primary, prevSize, pending,
                 strokeStart, dirty, editFrame>>

(* the Redo button *)
redoAction ==
  /\ Settled /\ Step
  /\ IF Len(redo) > 0
       THEN LET set == redoSets(pixels, history, redo)
            IN /\ pixels' = set.data
               /\ history' = set.history
               /\ redo' = set.redo
       ELSE UNCHANGED <<pixels, history, redo>>
  /\ UNCHANGED <<width, height, tool, isMouseDown, primary, prevSize, pending,
                 strokeStart, dirty, editFrame>>

(* importImage: the load starts; onload keeps the w, h and data of this     *)
(* render                                                                   *)
importImage ==
  /\ Settled /\ Step
  /\ Len(pending) < MaxPending
  /\ pending' = Append(pending, [w |-> width, h |-> height, data |-> pixels])
  /\ UNCHANGED <<pixels, width, height, history, redo, tool, isMouseDown, primary,
                 prevSize, strokeStart, dirty, editFrame>>

(* img.onload, for an image that is black or white all over *)
imgOnload ==
  \E colour \in {black, white} :
    /\ Settled /\ Step
    /\ pending # << >>
    /\ Len(history) < MaxHistory
    /\ history' = pushHistory(history, pending[1].data)
    /\ redo' = << >>
    /\ dirty' = FALSE
    /\ pixels' = [k \in 1..(pending[1].w * pending[1].h) |-> colour]
    /\ pending' = Tail(pending)
    /\ UNCHANGED <<width, height, tool, isMouseDown, primary, prevSize,
                   strokeStart, editFrame>>

NextEdit ==
  \/ setW
  \/ setH
  \/ resizeEffect
  \/ setTool
  \/ handleMouseDown
  \/ handleMouseMove
  \/ handleMouseUp
  \/ clearCanvas
  \/ undo
  \/ redoAction
  \/ importImage
  \/ imgOnload

SpecEdit == InitEdit /\ [][NextEdit]_vars

-----------------------------------------------------------------------------
(* more helpers over the generated text *)
TxAt(line, k, s) == Len(line) >= k /\ line[k].t = "txt" /\ line[k].v = s

NmAt(line, k) == Len(line) >= k /\ line[k].t = "name" /\ line[k].v = safeName(name)

NumAt(line, k, n) == Len(line) >= k /\ line[k].t = "num" /\ line[k].v = n

(* the hex literals of the text, in order (every template has one list) *)
Literals ==
  LET ij == CHOOSE q \in Pieces : Piece(q).t = "list" IN Piece(ij).v

HexDigitValue(c) == CHOOSE d \in 0..15 : toUpperCaseChar(HexDigits[d + 1]) = c

RECURSIVE HexValue(_, _)
HexValue(lit, k) ==
  IF k < 3 THEN 0 ELSE 16 * HexValue(lit, k - 1) + HexDigitValue(lit[k])

(* C21: the GFX bitmap font emitter declares the array <name>Bitmaps, the   *)
(* table <name>Glyphs with the single entry { 0, w, h, w, 0, 0 }, and a     *)
(* font structure <name> that refers to exactly these two tables.           *)
C21_GfxFontStructure ==
  (IsGen /\ outputFormat = "GFX_BITMAP_FONT" /\ code.kind = "text") =>
    LET t == code.text
        Is(i, first, last) == /\ Len(t[i]) = 3
                              /\ TxAt(t[i], 1, first) /\ NmAt(t[i], 2) /\ TxAt(t[i], 3, last)
    IN /\ \E i \in 1..Len(t) : Is(i, "const uint8_t ", "Bitmaps[] PROGMEM = {")
       /\ \E i \in 1..(Len(t) - 2) :
            /\ Is(i, "const GFXglyph ", "Glyphs[] PROGMEM = {")
            /\ Len(t[i + 1]) = 7
            /\ TxAt(t[i + 1], 1, "  { 0, ") /\ NumAt(t[i + 1], 2, width)
            /\ TxAt(t[i + 1], 3, ", ") /\ NumAt(t[i + 1], 4, height)
            /\ TxAt(t[i + 1], 5, ", ") /\ NumAt(t[i + 1], 6, width)
            /\ TxAt(t[i + 1], 7, ", 0, 0 } // Single glyph covering entire bitmap")
            /\ TxAt(t[i + 2], 1, "};")
       /\ \E i \in 1..(Len(t) - 2) :
            /\ Is(i, "const GFXfont ", " PROGMEM = {")
            /\ Is(i + 1, "  (uint8_t *)", "Bitmaps,")
            /\ Is(i + 2, "  (GFXglyph *)", "Glyphs,")

C21_Witness ==
  /\ call.fn = "generateCppCode"
  /\ outputFormat = "GFX_BITMAP_FONT"
  /\ drawMode = "HORIZONTAL_1BIT"
  /\ name = <<"m", "y", "-", "i", "c", "o", "n", " ", "2">>
  /\ width = 3 /\ height = 2
  /\ code.kind = "text"
  /\ \E i \in 1..Len(code.text) :
       /\ TxAt(code.text[i], 1, "  { 0, ")
       /\ NumAt(code.text[i], 2, 3) /\ NumAt(code.text[i], 4, 2) /\ NumAt(code.text[i], 6, 3)

(* C22 as stated: for every draw mode the plain-bytes text is a comment     *)
(* header with the dimensions, the byte count and the element type, then    *)
(* only the hex literals, no declaration; the stated byte count is the size *)
(* of the packed data in bytes, 2*w*h for RGB565.                           *)
C22_PlainBytesHeader ==
  (/\ IsGen
   /\ outputFormat = "PLAIN_BYTES"
   /\ drawMode \in DrawModes
   /\ Len(pixels) = width * height) =>
    /\ code.kind = "text"
    /\ LET t == code.text
           n == Len(t)
           elementBytes == IF drawMode = "HORIZONTAL_RGB565" THEN 2 ELSE 1
       IN /\ n >= 2
          /\ Len(t[n]) = 1 /\ t[n][1].t = "list"
          /\ \A i \in 1..(n - 1) : t[i] = << >> \/ TxAt(t[i], 1, "// ")
                                     \/ TxAt(t[i], 1, "// Data type: ")
                                     \/ TxAt(t[i], 1, "// Generated by Pixel2CPP - Plain bytes format")
          /\ \A ij \in Pieces : Piece(ij).t # "name"
          /\ \E i \in 1..(n - 1) :
               /\ NumAt(t[i], 2, width) /\ NumAt(t[i], 4, height)
               /\ NumAt(t[i], 6, elementBytes * Len(t[n][1].v))
          /\ drawMode = "HORIZONTAL_RGB565" =>
               \E i \in 1..(n - 1) : NumAt(t[i], 6, 2 * width * height)
          /\ \E i \in 1..(n - 1) :
               /\ TxAt(t[i], 1, "// Data type: ")
               /\ t[i][2].v = IF drawMode = "HORIZONTAL_RGB565" THEN "uint16_t" ELSE "uint8_t"

(* C23 as stated: a 1-bit draw mode with output format ARDUINO_CODE or      *)
(* PLAIN_BYTES gives a header that declares <name>_bits, <name>_w and       *)
(* <name>_h, the identifiers of the SSD1306 example sketch.                 *)
C23_ExampleIdentifiers ==
  (/\ IsGen
   /\ drawMode \in {"HORIZONTAL_1BIT", "VERTICAL_1BIT"}
   /\ outputFormat \in {"ARDUINO_CODE", "PLAIN_BYTES"}
   /\ Len(pixels) = width * height) =>
    /\ code.kind = "text"
    /\ \E i \in 1..Len(code.text) :
         /\ TxAt(code.text[i], 1, "const uint16_t ") /\ NmAt(code.text[i], 2)
         /\ TxAt(code.text[i], 3, "_w = ")
    /\ \E i \in 1..Len(code.text) :
         /\ TxAt(code.text[i], 1, "const uint16_t ") /\ NmAt(code.text[i], 2)
         /\ TxAt(code.text[i], 3, "_h = ")
    /\ \E i \in 1..Len(code.text) :
         /\ TxAt(code.text[i], 1, "const ") /\ NmAt(code.text[i], 4)
         /\ TxAt(code.text[i], 5, "_")
         /\ Len(code.text[i]) >= 7 /\ code.text[i][6].t = "str" /\ code.text[i][6].v = "bits"
         /\ TxAt(code.text[i], 7, "[] PROGMEM = {")

(* C24 as stated: every literal emitted into an array declared uint8_t is   *)
(* in 0..255, and RGB565 words are only emitted into arrays declared        *)
(* uint16_t, the Bitmaps array of the GFX bitmap font included.             *)
C24_LiteralsFitElementType ==
  (IsGen /\ code.kind = "text") =>
    LET t == code.text
        ArrayType(line) ==
          IF \E k \in 1..Len(line) : line[k].t = "txt" /\ line[k].v \in
                {"[] PROGMEM = {", "[] PROGMEM = { ", "Bitmaps[] PROGMEM = {",
                 "_bits[] PROGMEM = {", "_pixels[] PROGMEM = {"}
          THEN IF TxAt(line, 1, "const ") THEN line[2].v
               ELSE IF TxAt(line, 1, "const uint8_t ") THEN "uint8_t"
               ELSE IF TxAt(line, 1, "const uint16_t ") THEN "uint16_t"
               ELSE "other"
          ELSE "none"
    IN \A i \in 1..Len(t) :
         /\ ArrayType(t[i]) = "uint8_t" =>
              \A n \in 1..Len(Literals) : HexValue(Literals[n], Len(Literals[n])) \in 0..255
         /\ (ArrayType(t[i]) # "none" /\ drawMode = "HORIZONTAL_RGB565") =>
              ArrayType(t[i]) = "uint16_t"

(* the cells floodFill must recolour: those reachable from the start cell  *)
(* through 4-neighbour steps over cells of the canvas that have the target  *)
(* colour in the buffer the call was given                                  *)
FillCells == (0..(width - 1)) \X (0..(height - 1))

HasTarget(c) == fillTask.data[c[2] * width + c[1] + 1] = fillTask.target

Adjacent(c, d) ==
  \/ (c[1] = d[1] /\ (c[2] = d[2] + 1 \/ d[2] = c[2] + 1))
  \/ (c[2] = d[2] /\ (c[1] = d[1] + 1 \/ d[1] = c[1] + 1))

RECURSIVE Grow(_)
Grow(S) ==
  LET T == S \cup {c \in FillCells : HasTarget(c) /\ \E d \in S : Adjacent(c, d)}
  IN IF T = S THEN S ELSE Grow(T)

FillRegion ==
  Grow({c \in FillCells : c = <<fillTask.sx, fillTask.sy>> /\ HasTarget(c)})

FillResult ==
  /\ fillTask.pc # "thrown"
  /\ fillTask.pc # "done" => pixels = fillTask.data
  /\ fillTask.pc = "done" =>
       /\ Len(pixels) = width * height
       /\ \A c \in FillCells :
            pixels[c[2] * width + c[1] + 1] =
              IF fillTask.target # fillTask.replacement /\ c \in FillRegion
              THEN fillTask.replacement
              ELSE fillTask.data[c[2] * width + c[1] + 1]

(* C30: floodFill terminates for every canvas and start cell; when target   *)
(* differs from replacement it recolours exactly the cells reachable from   *)
(* the start through 4-neighbour steps over in-bounds cells of the target   *)
(* colour and leaves the others unchanged; when they are equal it changes   *)
(* nothing.                                                                 *)
C30_FloodFill == [](FillResult) /\ <>(fillTask.pc = "done")

C30_Witness ==
  /\ fillTask.pc = "done"
  /\ fillTask.target # fillTask.replacement
  /\ width = 3 /\ height >= 2
  /\ \E c, d, e \in FillRegion : c # d /\ d # e /\ c # e
  /\ \E c \in FillCells : HasTarget(c) /\ c \notin FillRegion
  /\ pixels # fillTask.data

-----------------------------------------------------------------------------
(* the editor's buffer, its size and its history *)

(* C25: whenever no resize effect is waiting, so that an event handler or   *)
(* the code generation can run, the buffer holds width * height pixels,     *)
(* also when an image load completes after a resize.                        *)
C25_BufferMatchesSize == Settled => Len(pixels) = width * height

(* C26: the resize from prevSize to (width, height) leaves a buffer of      *)
(* width * height pixels that keeps the old pixel at every (x, y) inside    *)
(* both sizes, is transparent elsewhere, and empties history and redo.      *)
C26_Resize ==
  [][resizeEffect =>
       /\ Len(pixels') = width * height
       /\ \A x \in 0..(width - 1), y \in 0..(height - 1) :
            Elem(pixels', idx(x, y, width)) =
              IF x < Min(prevSize.w, width) /\ y < Min(prevSize.h, height)
                THEN Elem(pixels, idx(x, y, prevSize.w))
                ELSE transparent
       /\ history' = << >>
       /\ redo' = << >>]_vars

(* a pixel drawn in the second row before the canvas was made narrower is   *)
(* still in the second row                                                  *)
C26_Witness ==
  /\ Settled
  /\ width < MaxEditW /\ height = MaxEditH /\ height >= 2
  /\ Len(pixels) = width * height
  /\ pixels[idx(0, 1, width) + 1] = black
  /\ pixels[idx(0, 0, width) + 1] = transparent
  /\ history = << >>

C28_RedoOnlyAfterUndoRedo == redo # << >> => ~dirty

(* every step that pushes a snapshot onto history empties redo *)
RecordedEditEmptiesRedo ==
  [][(clearCanvas \/ imgOnload \/ (handleMouseDown /\ history' # history)) =>
       redo' = << >>]_vars

(* C29: a pen or erase step changes the buffer only in a press that pushed  *)
(* the buffer of its beginning onto history.                                *)
C29_SnapshotBeforeChange ==
  [][(handleMouseMove /\ pixels' # pixels) => strokeStart # << >>]_vars

====
